---- MODULE Spec2Model ----
(***************************************************************************)
(* SNote: the in-memory tree of folders and notes kept by the useNotes     *)
(* hook, and its synchronisation with the three storage backends           *)
(* (browser local storage, native directory handle, remote HTTP server).   *)
(*                                                                         *)
(* Strings (names, paths, ids, note bodies) are sequences of one-character *)
(* strings, so that concatenation, startsWith, split('/') and the ".md"    *)
(* suffix are computed as the code computes them.                          *)
(***************************************************************************)
EXTENDS Integers, Sequences, FiniteSets, TLC

(***************************************************************************)
(* Bounds of the model.                                                    *)
(***************************************************************************)
MaxItems == 6
MaxInflight == 1
MaxLocalSteps == 3
MaxServerSteps == 2
MaxBackendSteps == 1
MaxTreeSteps == 2
MaxTags == 2
MaxFrontMatterSteps == 1
MaxEditorSteps == 4
MaxAddSteps == 2
MaxMoveSteps == 2
MaxSwitchSteps == 3
MaxExpandSteps == 2
MaxLoadingSteps == 2
MaxSegments == 3
MaxSafePathSteps == 1
MaxUserSteps == 2
MaxSessionSteps == 3
MaxClock == 2
MaxFragments == 5
MaxFormatSteps == 2

(***************************************************************************)
(* String helpers.                                                         *)
(***************************************************************************)
MdExt == <<".", "m", "d">>
Slash == <<"/">>
NotePrefix == <<"n", "o", "t", "e", ":">>
FolderPrefix == <<"f", "o", "l", "d", "e", "r", ":">>

\* String.prototype.startsWith
startsWith(s, p) ==
    /\ Len(p) <= Len(s)
    /\ SubSeq(s, 1, Len(p)) = p

\* String.prototype.endsWith
endsWith(s, p) ==
    /\ Len(p) <= Len(s)
    /\ SubSeq(s, Len(s) - Len(p) + 1, Len(s)) = p

\* name.replace(/\.md$/, '')
stripMd(s) == IF endsWith(s, MdExt) THEN SubSeq(s, 1, Len(s) - 3) ELSE s

\* s.split('/'): the segments between slashes, empty segments included
RECURSIVE splitFrom(_, _, _)
splitFrom(s, i, cur) ==
    IF i > Len(s) THEN <<cur>>
    ELSE IF s[i] = "/" THEN <<cur>> \o splitFrom(s, i + 1, <<>>)
    ELSE splitFrom(s, i + 1, Append(cur, s[i]))

split(s) == splitFrom(s, 1, <<>>)

\* parts.filter(Boolean)
filterBoolean(parts) == SelectSeq(parts, LAMBDA p : p # <<>>)

\* path.split('/').filter(Boolean)
pathParts(p) == filterBoolean(split(p))

\* parts.join('/')
RECURSIVE join(_)
join(parts) ==
    IF parts = <<>> THEN <<>>
    ELSE IF Len(parts) = 1 THEN parts[1]
    ELSE parts[1] \o Slash \o join(Tail(parts))

\* parentPath ? `${parentPath}/${baseName}` : baseName
joinPath(parentPath, baseName) ==
    IF parentPath # <<>> THEN parentPath \o Slash \o baseName ELSE baseName

\* the last element of a non-empty sequence, <<>> (undefined) of an empty one
last(parts) == IF parts = <<>> THEN <<>> ELSE parts[Len(parts)]

\* all but the last element
front(parts) == IF parts = <<>> THEN <<>> ELSE SubSeq(parts, 1, Len(parts) - 1)

\* String.prototype.trim over the whitespace of the model's alphabet
isSpace(c) == c \in {" ", "\n"}

RECURSIVE trimStart(_)
trimStart(s) == IF s # <<>> /\ isSpace(s[1]) THEN trimStart(Tail(s)) ELSE s

RECURSIVE trimEnd(_)
trimEnd(s) == IF s # <<>> /\ isSpace(s[Len(s)]) THEN trimEnd(front(s)) ELSE s

trim(s) == trimEnd(trimStart(s))

(***************************************************************************)
(* localeCompare: letters compare by alphabetical position regardless of   *)
(* case, the space sorts before every letter, and strings equal up to case *)
(* are ordered lower case first.                                           *)
(***************************************************************************)
seqToSet(s) == {s[i] : i \in DOMAIN s}

Letters == <<"a", "b", "c", "d", "e", "f", "g", "h", "i", "j", "k", "l", "m",
             "n", "o", "p", "q", "r", "s", "t", "u", "v", "w", "x", "y", "z">>
Capitals == <<"A", "B", "C", "D", "E", "F", "G", "H", "I", "J", "K", "L", "M",
              "N", "O", "P", "Q", "R", "S", "T", "U", "V", "W", "X", "Y", "Z">>

Alphabet == seqToSet(Letters) \cup seqToSet(Capitals) \cup {" ", ".", "/", ":", "1", "_"}

indexIn(seq, c) == CHOOSE i \in DOMAIN seq : seq[i] = c

RankTable ==
    [c \in Alphabet |->
        IF c = " " THEN 0
        ELSE IF c \in {".", "/", ":", "_"} THEN 1
        ELSE IF c = "1" THEN 4
        ELSE IF c \in seqToSet(Letters) THEN 10 + indexIn(Letters, c)
        ELSE 10 + indexIn(Capitals, c)]

charRank(c) == RankTable[c]

CapitalSet == seqToSet(Capitals)

isCapital(c) == c \in CapitalSet

RECURSIVE primaryCompare(_, _)
primaryCompare(a, b) ==
    IF a = <<>> /\ b = <<>> THEN 0
    ELSE IF a = <<>> THEN -1
    ELSE IF b = <<>> THEN 1
    ELSE IF charRank(a[1]) < charRank(b[1]) THEN -1
    ELSE IF charRank(a[1]) > charRank(b[1]) THEN 1
    ELSE primaryCompare(Tail(a), Tail(b))

RECURSIVE caseCompare(_, _)
caseCompare(a, b) ==
    IF a = <<>> \/ b = <<>> THEN 0
    ELSE IF a[1] = b[1] THEN caseCompare(Tail(a), Tail(b))
    ELSE IF isCapital(b[1]) THEN -1
    ELSE 1

localeCompare(a, b) ==
    IF primaryCompare(a, b) # 0 THEN primaryCompare(a, b) ELSE caseCompare(a, b)

(***************************************************************************)
(* Items.  A Note is [type, id, name, content, tags, path, isContentLoaded]*)
(* and a Folder is [type, id, name, children, isOpen, path,                *)
(* isLoadingContents]; an absent optional flag (undefined) is FALSE.       *)
(***************************************************************************)
Null == [type |-> "null"]

noteId(path) == NotePrefix \o path
folderId(path) == FolderPrefix \o path

\* type === 'note' ? `note:${path}` : `folder:${path}`
derivedId(type, path) == IF type = "note" THEN noteId(path) ELSE folderId(path)

\* type === 'note' ? `${name}.md` : name
baseNameOf(type, name) == IF type = "note" THEN name \o MdExt ELSE name

Note(id, name, content, tags, path, loaded) ==
    [type |-> "note", id |-> id, name |-> name, content |-> content,
     tags |-> tags, path |-> path, isContentLoaded |-> loaded]

Folder(id, name, children, isOpen, path) ==
    [type |-> "folder", id |-> id, name |-> name, children |-> children,
     isOpen |-> isOpen, path |-> path, isLoadingContents |-> FALSE]

(***************************************************************************)
(* utils/tree.ts                                                           *)
(***************************************************************************)
sortFileSystemItems(a, b) ==
    IF a.type = "folder" /\ b.type = "note" THEN -1
    ELSE IF a.type = "note" /\ b.type = "folder" THEN 1
    ELSE localeCompare(a.name, b.name)

\* Array.prototype.sort with sortFileSystemItems: a stable sort
RECURSIVE insertSorted(_, _)
insertSorted(sorted, x) ==
    IF sorted = <<>> THEN <<x>>
    ELSE IF sortFileSystemItems(x, sorted[Len(sorted)]) < 0
         THEN Append(insertSorted(front(sorted), x), sorted[Len(sorted)])
    ELSE Append(sorted, x)

RECURSIVE sortItems(_)
sortItems(items) ==
    IF items = <<>> THEN <<>>
    ELSE insertSorted(sortItems(front(items)), items[Len(items)])

RECURSIVE findItemAndParent(_, _, _)
RECURSIVE findFrom(_, _, _, _)
findFrom(items, i, itemId, parent) ==
    IF i > Len(items) THEN [item |-> Null, parent |-> Null]
    ELSE IF items[i].id = itemId THEN [item |-> items[i], parent |-> parent]
    ELSE IF items[i].type = "folder"
              /\ findItemAndParent(items[i].children, itemId, items[i]).item # Null
         THEN findItemAndParent(items[i].children, itemId, items[i])
    ELSE findFrom(items, i + 1, itemId, parent)

findItemAndParent(items, itemId, parent) == findFrom(items, 1, itemId, parent)

findItem(items, itemId) == findItemAndParent(items, itemId, Null)

RECURSIVE findAndRemoveItem(_, _)
findAndRemoveItem(items, itemId) ==
    LET filteredItems == SelectSeq(items, LAMBDA it : it.id # itemId)
        matches == SelectSeq(items, LAMBDA it : it.id = itemId)
        sub(i) == findAndRemoveItem(items[i].children, itemId)
        hit(i) == items[i].type = "folder" /\ sub(i).foundItem # Null
        hits == {i \in DOMAIN items : hit(i)}
    IN  IF matches # <<>>
        THEN [newItems |-> filteredItems, foundItem |-> last(matches)]
        ELSE [newItems |-> [i \in DOMAIN items |->
                               IF hit(i)
                               THEN [items[i] EXCEPT !.children = sub(i).newItems]
                               ELSE items[i]],
              foundItem |-> IF hits = {} THEN Null
                            ELSE sub(CHOOSE i \in hits :
                                        \A j \in hits : j <= i).foundItem]

\* an insertion that looks for the folder at the first level only
addItemToFolderFirstLevel(items, targetFolderId, itemsToAdd) ==
    [i \in DOMAIN items |->
        IF items[i].type = "folder" /\ items[i].id = targetFolderId
        THEN [items[i] EXCEPT
                 !.children = sortItems(items[i].children \o itemsToAdd),
                 !.isOpen = TRUE]
        ELSE items[i]]

RECURSIVE addItemToFolder(_, _, _)
addItemToFolder(items, targetFolderId, itemsToAdd) ==
    [i \in DOMAIN items |->
        IF items[i].type = "folder"
        THEN IF items[i].id = targetFolderId
             THEN [items[i] EXCEPT
                      !.children = sortItems(items[i].children \o itemsToAdd),
                      !.isOpen = TRUE]
             ELSE [items[i] EXCEPT
                      !.children = addItemToFolder(@, targetFolderId, itemsToAdd)]
        ELSE items[i]]

RECURSIVE updateItemRecursive(_, _)
updateItemRecursive(items, updatedItem) ==
    [i \in DOMAIN items |->
        IF items[i].id = updatedItem.id THEN updatedItem
        ELSE IF items[i].type = "folder"
             THEN [items[i] EXCEPT
                      !.children = updateItemRecursive(@, updatedItem)]
        ELSE items[i]]

RECURSIVE deleteItemRecursive(_, _)
deleteItemRecursive(items, itemId) ==
    LET newItems == SelectSeq(items, LAMBDA it : it.id # itemId)
    IN  IF Len(newItems) = Len(items)
        THEN [i \in DOMAIN items |->
                 IF items[i].type = "folder"
                 THEN [items[i] EXCEPT
                          !.children = deleteItemRecursive(@, itemId)]
                 ELSE items[i]]
        ELSE newItems

\* the first index holding itemId, 0 when there is none (findIndex)
findIndex(items, itemId) ==
    IF \E i \in DOMAIN items : items[i].id = itemId
    THEN CHOOSE i \in DOMAIN items :
            /\ items[i].id = itemId
            /\ \A j \in 1..(i - 1) : items[j].id # itemId
    ELSE 0

\* does some item at any depth of items carry itemId
RECURSIVE containsId(_, _)
containsId(items, itemId) ==
    \E i \in DOMAIN items :
        \/ items[i].id = itemId
        \/ items[i].type = "folder" /\ containsId(items[i].children, itemId)

\* findAndReplaceItem: the first level (depth first, left to right) that
\* holds itemId gets the item replaced and is re-sorted; the flag
\* itemFoundAndReplaced stops the search in the folders to the right.
RECURSIVE findAndReplaceItem(_, _, _)
findAndReplaceItem(items, itemId, newItem) ==
    IF findIndex(items, itemId) # 0
    THEN sortItems([items EXCEPT ![findIndex(items, itemId)] = newItem])
    ELSE [i \in DOMAIN items |->
            IF /\ items[i].type = "folder"
               /\ containsId(items[i].children, itemId)
               /\ \A j \in 1..(i - 1) :
                     ~(items[j].type = "folder"
                       /\ containsId(items[j].children, itemId))
            THEN [items[i] EXCEPT
                     !.children = findAndReplaceItem(@, itemId, newItem)]
            ELSE items[i]]

(***************************************************************************)
(* utils/frontmatter.ts.  A document text is kept in parsed form: whether  *)
(* it opens with a front-matter block, the id and tags lines of the block  *)
(* (id <<>> when there is no id line) and the characters after the block.  *)
(***************************************************************************)
Text(fm, id, hasTags, tags, body) ==
    [fm |-> fm, id |-> id, hasTags |-> hasTags, tags |-> tags, body |-> body]

\* a text without a front-matter block
plainText(body) == Text(FALSE, <<>>, FALSE, <<>>, body)

\* the closing `---\s*\n?` of the block swallows the white space after it
parseFrontMatter(markdown) ==
    IF ~markdown.fm
    THEN [data |-> [id |-> <<>>, hasTags |-> FALSE, tags |-> <<>>],
          content |-> markdown.body]
    ELSE [data |-> [id |-> markdown.id, hasTags |-> markdown.hasTags,
                    tags |-> markdown.tags],
          content |-> trimStart(markdown.body)]

\* stringifyFrontMatter({ id, tags }, content)
stringifyFrontMatter(id, tags, content) == Text(TRUE, id, TRUE, tags, trim(content))

\* Array.isArray(data.tags) ? data.tags : []
tagsOf(data) == IF data.hasTags THEN data.tags ELSE <<>>

(***************************************************************************)
(* utils/frontmatter.ts on the characters of a document.  The data of a    *)
(* document are its id and its tags, each present or not.                  *)
(***************************************************************************)
Data(hasId, id, hasTags, tags) ==
    [hasId |-> hasId, id |-> id, hasTags |-> hasTags, tags |-> tags]

NoData == Data(FALSE, <<>>, FALSE, <<>>)

Dashes == <<"-", "-", "-">>

\* the last index of the run of white space that starts at i (i - 1: none)
RECURSIVE spaceRunEnd(_, _)
spaceRunEnd(s, i) ==
    IF i <= Len(s) /\ isSpace(s[i]) THEN spaceRunEnd(s, i + 1) ELSE i - 1

\* str.split(sep)
RECURSIVE splitBy(_, _, _, _)
splitBy(s, sep, i, cur) ==
    IF i > Len(s) THEN <<cur>>
    ELSE IF s[i] = sep THEN <<cur>> \o splitBy(s, sep, i + 1, <<>>)
    ELSE splitBy(s, sep, i + 1, Append(cur, s[i]))

\* str.indexOf(c) + 1, 0 when c is not in str
indexOf(str, c) ==
    IF \E k \in DOMAIN str : str[k] = c
    THEN CHOOSE k \in DOMAIN str : str[k] = c /\ \A j \in 1..(k - 1) : str[j] # c
    ELSE 0

\* FRONT_MATTER_REGEX = /^---\s*\n([\s\S]*?)\n---\s*\n?/ : the line feeds
\* of the white space after the first dashes that can end the opening
frontMatterOpens(s) == {o \in 4..spaceRunEnd(s, 4) : s[o] = "\n"}

\* the line feeds after the opening at o that the closing dashes follow
frontMatterCloses(s, o) ==
    {e \in (o + 1)..(Len(s) - 3) : s[e] = "\n" /\ SubSeq(s, e + 1, e + 3) = Dashes}

\* markdown.match(FRONT_MATTER_REGEX): \s* takes the longest run that still
\* lets the rest match, the block is the shortest possible
matchFrontMatter(s) ==
    LET os == {o \in frontMatterOpens(s) : frontMatterCloses(s, o) # {}}
    IN  IF Len(s) >= 3 /\ SubSeq(s, 1, 3) = Dashes /\ os # {}
        THEN LET o == CHOOSE x \in os : \A y \in os : y <= x
                 e == CHOOSE x \in frontMatterCloses(s, o) :
                         \A y \in frontMatterCloses(s, o) : x <= y
             IN  [matched |-> TRUE, block |-> SubSeq(s, o + 1, e - 1),
                  rest |-> SubSeq(s, spaceRunEnd(s, e + 4) + 1, Len(s))]
        ELSE [matched |-> FALSE, block |-> <<>>, rest |-> s]

\* JSON.stringify of a string
RECURSIVE jsonEscape(_)
jsonEscape(str) ==
    IF str = <<>> THEN <<>>
    ELSE (IF str[1] \in {"\"", "\\"} THEN <<"\\", str[1]>>
          ELSE IF str[1] = "\n" THEN <<"\\", "n">>
          ELSE <<str[1]>>) \o jsonEscape(Tail(str))

\* the mutation of jsonString that escapes nothing
jsonStringRaw(str) == <<"\"">> \o str \o <<"\"">>

jsonString(str) == <<"\"">> \o jsonEscape(str) \o <<"\"">>

\* JSON.stringify of an array of strings
RECURSIVE jsonItems(_)
jsonItems(tags) ==
    IF tags = <<>> THEN <<>>
    ELSE IF Len(tags) = 1 THEN jsonString(tags[1])
    ELSE jsonString(tags[1]) \o <<",">> \o jsonItems(Tail(tags))

jsonStringify(tags) == <<"[">> \o jsonItems(tags) \o <<"]">>

\* JSON.parse, for the values the documents of the model hold: arrays of
\* strings and of literals, strings, literals; anything else throws
JsonFail == [ok |-> FALSE, str |-> <<>>, next |-> 0]

Digits == {"0", "1", "2", "3", "4", "5", "6", "7", "8", "9"}

JsonLiterals == {<<"t", "r", "u", "e">>, <<"f", "a", "l", "s", "e">>, <<"n", "u", "l", "l">>}

jsonUnescape(c) ==
    IF c = "n" THEN "\n" ELSE IF c = "t" THEN "\t" ELSE IF c = "r" THEN "\r"
    ELSE IF c = "f" THEN "\f" ELSE c

\* the string literal whose opening quote is before i
RECURSIVE jsonScanString(_, _, _)
jsonScanString(s, i, acc) ==
    IF i > Len(s) \/ s[i] = "\n" THEN JsonFail
    ELSE IF s[i] = "\"" THEN [ok |-> TRUE, str |-> acc, next |-> i + 1]
    ELSE IF s[i] = "\\"
         THEN IF i + 1 <= Len(s) /\ s[i + 1] \in {"\"", "\\", "/", "n", "t", "r", "f"}
              THEN jsonScanString(s, i + 2, Append(acc, jsonUnescape(s[i + 1])))
              ELSE JsonFail
    ELSE jsonScanString(s, i + 1, Append(acc, s[i]))

\* the end of the run of digits that starts at i (i - 1: none)
RECURSIVE digitRunEnd(_, _)
digitRunEnd(s, i) ==
    IF i <= Len(s) /\ s[i] \in Digits THEN digitRunEnd(s, i + 1) ELSE i - 1

\* one value that is not an array, starting at i
jsonScalar(s, i) ==
    IF i > Len(s) THEN JsonFail
    ELSE IF s[i] = "\"" THEN jsonScanString(s, i + 1, <<>>)
    ELSE IF s[i] \in Digits /\ (s[i] # "0" \/ digitRunEnd(s, i) = i)
         THEN [ok |-> TRUE, str |-> SubSeq(s, i, digitRunEnd(s, i)),
               next |-> digitRunEnd(s, i) + 1]
    ELSE IF \E l \in JsonLiterals : i + Len(l) - 1 <= Len(s) /\ SubSeq(s, i, i + Len(l) - 1) = l
         THEN LET l == CHOOSE l \in JsonLiterals :
                          i + Len(l) - 1 <= Len(s) /\ SubSeq(s, i, i + Len(l) - 1) = l
              IN  [ok |-> TRUE, str |-> l, next |-> i + Len(l)]
    ELSE JsonFail

\* the elements of an array from i on, the opening bracket read
RECURSIVE jsonElements(_, _, _)
jsonElements(s, i, acc) ==
    LET v == jsonScalar(s, spaceRunEnd(s, i) + 1)
        j == spaceRunEnd(s, v.next) + 1
    IN  IF ~v.ok \/ j > Len(s) THEN [kind |-> "error", items |-> <<>>]
        ELSE IF s[j] = "]"
             THEN IF spaceRunEnd(s, j + 1) = Len(s)
                  THEN [kind |-> "array", items |-> Append(acc, v.str)]
                  ELSE [kind |-> "error", items |-> <<>>]
        ELSE IF s[j] = "," THEN jsonElements(s, j + 1, Append(acc, v.str))
        ELSE [kind |-> "error", items |-> <<>>]

jsonParse(s) ==
    LET i == spaceRunEnd(s, 1) + 1
    IN  IF i > Len(s) THEN [kind |-> "error", items |-> <<>>]
        ELSE IF s[i] = "["
             THEN LET j == spaceRunEnd(s, i + 1) + 1
                  IN  IF j <= Len(s) /\ s[j] = "]" /\ spaceRunEnd(s, j + 1) = Len(s)
                      THEN [kind |-> "array", items |-> <<>>]
                      ELSE jsonElements(s, i + 1, <<>>)
        ELSE LET v == jsonScalar(s, i)
             IN  IF v.ok /\ spaceRunEnd(s, v.next) = Len(s)
                 THEN [kind |-> "other", items |-> <<>>]
                 ELSE [kind |-> "error", items |-> <<>>]

\* value.split(',').map(tag => tag.trim()).filter(Boolean)
RECURSIVE trimmedNonEmpty(_)
trimmedNonEmpty(parts) ==
    IF parts = <<>> THEN <<>>
    ELSE (IF trim(parts[1]) = <<>> THEN <<>> ELSE <<trim(parts[1])>>)
         \o trimmedNonEmpty(Tail(parts))

\* value.replace(/^['"]|['"]$/g, '')
stripQuotes(value) ==
    LET a == IF value # <<>> /\ value[1] \in {"'", "\""} THEN Tail(value) ELSE value
    IN  IF a # <<>> /\ a[Len(a)] \in {"'", "\""} THEN front(a) ELSE a

\* the body of the forEach of parseFrontMatterText: one line of the block
parseLine(data, line) ==
    LET colonIndex == indexOf(line, ":")
        key == trim(SubSeq(line, 1, colonIndex - 1))
        value == trim(SubSeq(line, colonIndex + 1, Len(line)))
        parsed == jsonParse(value)
    IN  IF colonIndex <= 1 THEN data
        ELSE IF key = <<"t", "a", "g", "s">>
             THEN IF parsed.kind = "array"
                  THEN [data EXCEPT !.hasTags = TRUE, !.tags = parsed.items]
                  ELSE IF parsed.kind = "other" THEN data
                  ELSE [data EXCEPT !.hasTags = TRUE,
                                    !.tags = trimmedNonEmpty(splitBy(value, ",", 1, <<>>))]
        ELSE IF key = <<"i", "d">>
             THEN [data EXCEPT !.hasId = TRUE, !.id = stripQuotes(value)]
        ELSE data

RECURSIVE parseLines(_, _)
parseLines(data, lines) ==
    IF lines = <<>> THEN data ELSE parseLines(parseLine(data, lines[1]), Tail(lines))

\* parseFrontMatter on the characters of the document
parseFrontMatterText(markdown) ==
    LET match == matchFrontMatter(markdown)
    IN  IF ~match.matched THEN [data |-> NoData, content |-> markdown]
        ELSE [data |-> parseLines(NoData, splitBy(match.block, "\n", 1, <<>>)),
              content |-> match.rest]

\* stringifyFrontMatter on the characters of the document
stringifyFrontMatterText(data, content) ==
    IF ~data.hasId /\ ~data.hasTags THEN content
    ELSE Dashes \o <<"\n">>
         \o (IF data.hasId THEN <<"i", "d", ":", " ">> \o data.id \o <<"\n">> ELSE <<>>)
         \o (IF data.hasTags
             THEN <<"t", "a", "g", "s", ":", " ">> \o jsonStringify(data.tags) \o <<"\n">>
             ELSE <<>>)
         \o Dashes \o <<"\n", "\n">> \o trim(content)

(***************************************************************************)
(* Inputs of the model.                                                    *)
(***************************************************************************)
Str_NewNote == <<"N", "e", "w", " ", "N", "o", "t", "e">>
Str_NewFolder == <<"N", "e", "w", " ", "F", "o", "l", "d", "e", "r">>
Str_Welcome == <<"W", "e", "l", "c", "o", "m", "e">>
Str_MyNotes == <<"M", "y", " ", "N", "o", "t", "e", "s">>
Str_root == <<"r", "o", "o", "t">>

\* constants.ts WELCOME_CONTENT, abbreviated to its first characters
WELCOME_CONTENT == <<" ", "W">>

\* the names a user types when renaming
Names == {<<"A">>, <<"A", "B">>}

\* names that are blank: the empty name and a name of white space
BlankNames == {<<>>, <<" ">>}

\* the bodies a user types in the editor
Contents == {<<>>, <<"x">>, <<"x", " ">>}

\* the tag lists a user enters
TagLists == {<<>>, <<"t">>}

ItemTypes == {"note", "folder"}

(***************************************************************************)
(* Measures over a tree.                                                   *)
(***************************************************************************)
RECURSIVE countItems(_)
countItems(items) ==
    IF items = <<>> THEN 0
    ELSE 1 + (IF items[1].type = "folder" THEN countItems(items[1].children) ELSE 0)
           + countItems(Tail(items))

\* every item of the tree, at any depth, in depth-first order
RECURSIVE flatten(_)
flatten(items) ==
    IF items = <<>> THEN <<>>
    ELSE <<items[1]>>
         \o (IF items[1].type = "folder" THEN flatten(items[1].children) ELSE <<>>)
         \o flatten(Tail(items))

allIds(items) == {it.id : it \in seqToSet(flatten(items))}

(***************************************************************************)
(* State of the useNotes hook and of the three backends.                   *)
(***************************************************************************)
VARIABLES
    storageLocation,    \* settings.storageLocation
    token,              \* settings.serverProvider.token is set
    needsLogin,         \* the needsLogin flag
    isServerLoadInitiated, \* the ref that stops the init effect from reloading
    directoryHandle,    \* a native directory has been picked and may be used
    fileSystem,         \* the in-memory tree
    localStorageNotes,  \* the tree persisted in the browser's local storage
    serverDisk,         \* the files below DATA_ROOT on the server
    handleDisk,         \* the files below the picked native directory
    inflight,           \* lazy loads and listings awaiting their responses
    toasts,             \* notifications raised by the latest step
    lastOp,             \* the latest operation and how it ended
    steps,              \* the number of operations the user may still request
    verified,           \* the mode of the latest permission check that succeeded
    input,              \* the arguments drawn for a function applied on its own
    output,             \* what the function returned for them
    activeItem,         \* App: activeItemId, the id of the selected item (<<>>: none)
    editor,             \* Editor: prevNoteRef, localName, localContent, localTags
    isLoading,          \* the isLoading flag of the hook
    sessions            \* the server's user files, the tokens it issued, its clock

vars == <<storageLocation, directoryHandle, token, needsLogin, isServerLoadInitiated,
          fileSystem, localStorageNotes, serverDisk, handleDisk, inflight, toasts,
          lastOp, steps, verified, input, output, activeItem, editor, isLoading,
          sessions>>

\* the state of the Editor component
Editor(prevNoteId, localName, localContent, localTags) ==
    [prevNoteId |-> prevNoteId, localName |-> localName,
     localContent |-> localContent, localTags |-> localTags]

\* the Editor with no note: setLocalName(''), setLocalContent(''), setLocalTags([])
NoEditor == Editor(<<>>, <<>>, <<>>, <<>>)

Toast(kind, about) == [kind |-> kind, about |-> about]

Op(op, outcome, id, ret) == [op |-> op, outcome |-> outcome, id |-> id, ret |-> ret]

\* a request of the user takes one unit of the budget of the run
Tick == steps > 0 /\ steps' = steps - 1

\* a response or an effect takes none
NoTick == steps' = steps

(***************************************************************************)
(* The accounts of the server and their sessions.  A token is the signed   *)
(* payload {username, iat, exp}: jwt.sign reads the clock in whole seconds *)
(* and the signature is a function of the payload and the secret.          *)
(***************************************************************************)
UserU == <<"u">>
UserUV == <<"u", "v">>
Users == {UserU, UserUV}

\* expiresIn, scaled down to the seconds the clock of the model runs for
TokenExpiry == 2

\* activeToken: null, and a request without the auth_token cookie
NoToken == [username |-> <<>>, iat |-> -1, exp |-> -1]

\* jwt.sign({ username }, secret, { expiresIn })
jwtSign(username, now) == [username |-> username, iat |-> now, exp |-> now + TokenExpiry]

\* jwt.verify(token, secret) does not throw
jwtVerify(cookie, now) == cookie # NoToken /\ now < cookie.exp

\* the registered users with activeToken: null, no cookie handed out, the clock at 0
NoSessions == [activeToken |-> [user \in Users |-> NoToken], issued |-> <<>>, now |-> 0]

\* the status the auth middleware ends with; 200 stands for next()
auth(s, cookie) ==
    IF cookie = NoToken THEN 401
    ELSE IF ~jwtVerify(cookie, s.now) THEN 401
    ELSE IF cookie.username \notin Users THEN 401
    ELSE IF s.activeToken[cookie.username] # cookie THEN 403
    ELSE 200

initialFileSystem ==
    << [Folder(Str_root, Str_MyNotes,
               << Note(<<"1">>, Str_Welcome, WELCOME_CONTENT,
                       <<"welcome", "guide">>, Str_Welcome \o MdExt, TRUE) >>,
               TRUE, <<>>) EXCEPT !.isLoadingContents = FALSE] >>

(***************************************************************************)
(* Steps shared by the branches of the operations.                         *)
(***************************************************************************)
\* the mutation of targetParentOf that always takes the root
targetParentAlwaysRoot(fs, activeItemId) == Null

\* addItem: the folder that receives the new item (Null for the root)
targetParentOf(fs, activeItemId) ==
    IF activeItemId = <<>> THEN Null
    ELSE LET r == findItem(fs, activeItemId)
         IN  IF r.item.type = "folder" THEN r.item ELSE r.parent

\* targetParent?.path || ''
pathOrEmpty(folder) == IF folder.type = "null" THEN <<>> ELSE folder.path

newItemNameOf(type) == IF type = "note" THEN Str_NewNote ELSE Str_NewFolder

\* the mutation of newItemOf whose note is not loaded
newItemUnloaded(type, newItemPath) ==
    IF type = "note"
    THEN Note(noteId(newItemPath), Str_NewNote, <<>>, <<>>, newItemPath, FALSE)
    ELSE Folder(folderId(newItemPath), Str_NewFolder, <<>>, TRUE, newItemPath)

\* the item addItem builds for the optimistic update
newItemOf(type, newItemPath) ==
    IF type = "note"
    THEN Note(noteId(newItemPath), Str_NewNote, <<>>, <<>>, newItemPath, TRUE)
    ELSE Folder(folderId(newItemPath), Str_NewFolder, <<>>, TRUE, newItemPath)

\* the updater addItem passes to setFileSystem / setLocalStorageNotes
insertNewItem(fs, targetParent, newItem) ==
    IF targetParent.type # "null"
    THEN addItemToFolder(fs, targetParent.id, <<newItem>>)
    ELSE sortItems(fs \o <<newItem>>)

\* the ids the user interface can hand to an operation
ActiveIds == allIds(fileSystem) \cup {<<>>}

(***************************************************************************)
(* Local Persisted Store.  Every operation maps the persisted tree and the *)
(* init effect copies the new persisted tree into the in-memory tree.      *)
(***************************************************************************)
setLocalStorageNotes(newTree) ==
    /\ localStorageNotes' = newTree
    /\ fileSystem' = newTree

addItemLocal(type, activeItemId) ==
    LET targetParent == targetParentOf(fileSystem, activeItemId)
        parentPath == pathOrEmpty(targetParent)
        newItemPath == joinPath(parentPath, baseNameOf(type, newItemNameOf(type)))
        newItem == newItemOf(type, newItemPath)
    IN  /\ storageLocation = "localStorage"
        /\ Tick
        /\ countItems(localStorageNotes) < MaxItems
        /\ setLocalStorageNotes(insertNewItem(localStorageNotes, targetParent, newItem))
        /\ toasts' = <<>>
        /\ lastOp' = Op("add", "ok", activeItemId, newItem.id)
        /\ UNCHANGED <<sessions, storageLocation, verified, input, output, activeItem, editor,
                       isLoading,
                       directoryHandle, token,
                       needsLogin, isServerLoadInitiated, serverDisk,
                       handleDisk, inflight>>

\* renameItem, local storage branch
RECURSIVE renameRecursive(_, _, _, _)
renameRecursive(items, parentPath, id, newName) ==
    [k \in DOMAIN items |->
        LET i == items[k]
            newPath == joinPath(parentPath, baseNameOf(i.type, newName))
        IN  IF i.id = id
            THEN IF i.type = "folder"
                 THEN [i EXCEPT !.name = newName, !.path = newPath,
                                !.id = derivedId(i.type, newPath),
                                !.children = renameRecursive(@, newPath, id, newName)]
                 ELSE [i EXCEPT !.name = newName, !.path = newPath,
                                !.id = derivedId(i.type, newPath)]
            ELSE IF i.type = "folder"
                 THEN [i EXCEPT !.children = renameRecursive(@, i.path, id, newName)]
            ELSE i]

\* the path and id renameItem computes before it branches on the backend
renamedPath(fs, id, newName) ==
    LET r == findItem(fs, id)
    IN  joinPath(pathOrEmpty(r.parent), baseNameOf(r.item.type, newName))

renamedId(fs, id, newName) ==
    derivedId(findItem(fs, id).item.type, renamedPath(fs, id, newName))

renameItemLocal(id, newName, op) ==
    LET item == findItem(fileSystem, id).item
    IN  /\ storageLocation = "localStorage"
        /\ Tick
        /\ item # Null
        /\ item.name # newName
        /\ setLocalStorageNotes(renameRecursive(localStorageNotes, <<>>, id, newName))
        /\ toasts' = <<>>
        /\ lastOp' = Op(op, "ok", id, renamedId(fileSystem, id, newName))
        /\ UNCHANGED <<sessions, storageLocation, verified, input, output, activeItem, editor,
                       isLoading,
                       directoryHandle, token,
                       needsLogin, isServerLoadInitiated, serverDisk,
                       handleDisk, inflight>>

\* updateNote, local storage branch (a changed name turns it into a rename)
updateNoteLocal(id, content, name, tags) ==
    LET noteInState == findItem(fileSystem, id).item
    IN  /\ storageLocation = "localStorage"
        /\ Tick
        /\ noteInState.type = "note"
        /\ IF noteInState.name # name
           THEN renameItemLocal(id, name, "updateRename")
           ELSE /\ noteInState.content # content \/ noteInState.tags # tags
                /\ setLocalStorageNotes(updateItemRecursive(localStorageNotes,
                       [noteInState EXCEPT !.content = content, !.name = name,
                                           !.tags = tags, !.isContentLoaded = TRUE]))
                /\ toasts' = <<>>
                /\ lastOp' = Op("update", "ok", id, <<>>)
                /\ UNCHANGED <<storageLocation, verified, input, output, activeItem, editor,
                       isLoading, sessions,
                               directoryHandle, token,
                               needsLogin, isServerLoadInitiated, serverDisk,
                               handleDisk, inflight>>

deleteItemLocal(id) ==
    /\ storageLocation = "localStorage"
    /\ Tick
    /\ findItem(fileSystem, id).item # Null
    /\ setLocalStorageNotes(deleteItemRecursive(localStorageNotes, id))
    /\ toasts' = <<>>
    /\ lastOp' = Op("delete", "ok", id, <<>>)
    /\ UNCHANGED <<sessions, storageLocation, verified, input, output, activeItem, editor,
                       isLoading,
                   directoryHandle, token, needsLogin,
                   isServerLoadInitiated, serverDisk,
                   handleDisk, inflight>>

\* moveItem: the checks made before the backend is chosen
moveRejectedSilently(itemId, targetFolderId) ==
    \/ itemId = targetFolderId
    \/ findItem(fileSystem, itemId).item = Null
    \/ findItem(fileSystem, targetFolderId).item.type # "folder"

moveRejectedAsDescendant(itemId, targetFolderId) ==
    LET sourceItem == findItem(fileSystem, itemId).item
        targetFolder == findItem(fileSystem, targetFolderId).item
    IN  /\ sourceItem.type = "folder"
        /\ \/ startsWith(targetFolder.path, sourceItem.path)
           \/ sourceItem.id = targetFolderId

\* sourceItem.path.split('/').pop()
sourceNameOf(itemId) == last(split(findItem(fileSystem, itemId).item.path))

\* the move passed every check and reaches the backend branch
moveAccepted(itemId, targetFolderId) ==
    /\ ~moveRejectedSilently(itemId, targetFolderId)
    /\ ~moveRejectedAsDescendant(itemId, targetFolderId)
    /\ sourceNameOf(itemId) # <<>>

RECURSIVE updatePathsAndIdsRecursive(_, _)
updatePathsAndIdsRecursive(item, newParentPath) ==
    LET newPath == joinPath(newParentPath, baseNameOf(item.type, item.name))
    IN  IF item.type = "folder"
        THEN [item EXCEPT !.path = newPath, !.id = derivedId(item.type, newPath),
                          !.children = [k \in DOMAIN @ |->
                              updatePathsAndIdsRecursive(@[k], newPath)]]
        ELSE [item EXCEPT !.path = newPath, !.id = derivedId(item.type, newPath)]

\* the updater of moveItem returns the tree it was given
moveUpdaterKeeps(currentFileSystem, itemId, targetFolderId) ==
    \/ findItem(currentFileSystem, targetFolderId).item.type # "folder"
    \/ findAndRemoveItem(currentFileSystem, itemId).foundItem = Null

\* the tree the updater of moveItem builds otherwise
movedTree(currentFileSystem, itemId, targetFolderId) ==
    LET targetFolder == findItem(currentFileSystem, targetFolderId).item
        removed == findAndRemoveItem(currentFileSystem, itemId)
    IN  addItemToFolder(removed.newItems, targetFolderId,
            <<updatePathsAndIdsRecursive(removed.foundItem, targetFolder.path)>>)

moveItemLocal(itemId, targetFolderId) ==
    /\ storageLocation = "localStorage"
    /\ Tick
    /\ moveAccepted(itemId, targetFolderId)
    /\ IF moveUpdaterKeeps(localStorageNotes, itemId, targetFolderId)
       THEN /\ UNCHANGED <<fileSystem, localStorageNotes>>
            /\ toasts' = <<>>
       ELSE /\ setLocalStorageNotes(movedTree(localStorageNotes, itemId, targetFolderId))
            /\ toasts' = <<Toast("success", itemId)>>
    /\ lastOp' = Op("move", "ok", itemId, targetFolderId)
    /\ UNCHANGED <<sessions, storageLocation, verified, input, output, activeItem, editor,
                       isLoading,
                   directoryHandle, token, needsLogin,
                   isServerLoadInitiated, serverDisk,
                   handleDisk, inflight>>

\* moveItem of a folder into itself or below itself: a toast and nothing else
moveItemRejected(itemId, targetFolderId) ==
    /\ Tick
    /\ ~moveRejectedSilently(itemId, targetFolderId)
    /\ moveRejectedAsDescendant(itemId, targetFolderId)
    /\ toasts' = <<Toast("error", itemId)>>
    /\ lastOp' = Op("move", "rejected", itemId, targetFolderId)
    /\ UNCHANGED <<sessions, storageLocation, verified, input, output, activeItem, editor,
                       isLoading,
                   directoryHandle, token, needsLogin,
                   isServerLoadInitiated, fileSystem,
                   localStorageNotes, serverDisk, handleDisk, inflight>>

(***************************************************************************)
(* Imported files.  A File is a .md document or a .zip archive with its    *)
(* entries in archive order.                                               *)
(***************************************************************************)
MdFile(name, text) == [name |-> name, text |-> text, entries |-> <<>>]
ZipFile(name, entries) == [name |-> name, text |-> plainText(<<>>), entries |-> entries]
ZipEntry(path, dir, text) == [path |-> path, dir |-> dir, text |-> text]

Str_Zip == <<".", "z", "i", "p">>
Str_MACOSX == <<"_", "_", "M", "A", "C", "O", "S", "X">>
\* the index file a folder export writes into its archive
Str_toc == <<"_", "t", "o", "c", ".", "m", "d">>

\* the file lists a user drops on the import dialog
ImportBatches ==
    { << MdFile(<<"A", ".", "m", "d">>, plainText(<<"x">>)) >>,
      << MdFile(<<"A", ".", "m", "d">>,
                Text(TRUE, noteId(<<"O", ".", "m", "d">>), TRUE, <<"t">>, <<"x">>)) >>,
      << ZipFile(<<"Z", ".", "z", "i", "p">>,
                 << ZipEntry(<<"A", "/">>, TRUE, plainText(<<>>)),
                    ZipEntry(<<"A", "/", "c", ".", "m", "d">>, FALSE, plainText(<<"x">>)),
                    ZipEntry(<<"A", "/", "b", ".", "m", "d">>, FALSE,
                             Text(TRUE, <<>>, TRUE, <<"t">>, <<>>)) >>) >>,
      << ZipFile(<<"Z", ".", "z", "i", "p">>,
                 << ZipEntry(Str_toc, FALSE, plainText(<<"x">>)) >>) >> }

\* the entries of the archives among the files
RECURSIVE flattenEntries(_)
flattenEntries(files) ==
    IF files = <<>> THEN <<>> ELSE files[1].entries \o flattenEntries(Tail(files))

\* the Note importFiles builds from a document at notePath
importedNote(fileName, notePath, text) ==
    LET parsed == parseFrontMatter(text)
    IN  Note(IF parsed.data.id # <<>> THEN parsed.data.id ELSE noteId(notePath),
             stripMd(fileName), parsed.content, tagsOf(parsed.data), notePath, TRUE)

\* processZipEntry handles the entry at all (local storage branch)
zipEntryTaken(entry) ==
    /\ ~entry.dir
    /\ endsWith(entry.path, MdExt)
    /\ ~startsWith(entry.path, Str_MACOSX)
    /\ pathParts(entry.path) # <<>>

\* children.find(c => c.name === part && c.type === 'folder'), 0 when absent
childFolderIndex(children, part) ==
    IF \E k \in DOMAIN children : children[k].name = part /\ children[k].type = "folder"
    THEN CHOOSE k \in DOMAIN children :
            /\ children[k].name = part /\ children[k].type = "folder"
            /\ \A j \in 1..(k - 1) :
                  ~(children[j].name = part /\ children[j].type = "folder")
    ELSE 0

\* processZipEntry up to its await: the folders of the entry's path exist
RECURSIVE zipEnsureFolders(_, _)
zipEnsureFolders(currentFolder, parts) ==
    IF parts = <<>> THEN currentFolder
    ELSE LET k == childFolderIndex(currentFolder.children, parts[1])
             childFolderPath == currentFolder.path \o Slash \o parts[1]
             childFolder == Folder(folderId(childFolderPath), parts[1], <<>>,
                                   FALSE, childFolderPath)
         IN  IF k = 0
             THEN [currentFolder EXCEPT !.children =
                      Append(@, zipEnsureFolders(childFolder, Tail(parts)))]
             ELSE [currentFolder EXCEPT !.children[k] =
                      zipEnsureFolders(@, Tail(parts))]

\* processZipEntry after its await: the note is pushed and the level sorted
RECURSIVE zipPushNote(_, _, _, _)
zipPushNote(currentFolder, parts, fileName, text) ==
    IF parts = <<>>
    THEN [currentFolder EXCEPT !.children =
             sortItems(Append(@, importedNote(fileName,
                                   currentFolder.path \o Slash \o fileName, text)))]
    ELSE [currentFolder EXCEPT
             !.children[childFolderIndex(currentFolder.children, parts[1])] =
                 zipPushNote(@, Tail(parts), fileName, text)]

RECURSIVE zipAllFolders(_, _)
zipAllFolders(rootFolder, entries) ==
    IF entries = <<>> THEN rootFolder
    ELSE zipAllFolders(
            IF zipEntryTaken(entries[1])
            THEN zipEnsureFolders(rootFolder, front(pathParts(entries[1].path)))
            ELSE rootFolder,
            Tail(entries))

RECURSIVE zipAllNotes(_, _)
zipAllNotes(rootFolder, entries) ==
    IF entries = <<>> THEN rootFolder
    ELSE zipAllNotes(
            IF zipEntryTaken(entries[1])
            THEN zipPushNote(rootFolder, front(pathParts(entries[1].path)),
                             last(pathParts(entries[1].path)), entries[1].text)
            ELSE rootFolder,
            Tail(entries))

\* the folder importFiles builds from an archive (local storage branch)
zipRootFolder(file, parentPath) ==
    LET rootFolderName == SubSeq(file.name, 1, Len(file.name) - 4)
        rootFolderPath == joinPath(parentPath, rootFolderName)
        rootFolder == Folder(folderId(rootFolderPath), rootFolderName, <<>>,
                             FALSE, rootFolderPath)
    IN  zipAllNotes(zipAllFolders(rootFolder, file.entries), file.entries)

\* the items importFiles collects from the files (local storage branch)
RECURSIVE importedItems(_, _)
importedItems(files, parentPath) ==
    IF files = <<>> THEN <<>>
    ELSE LET file == files[1]
             rest == importedItems(Tail(files), parentPath)
         IN  IF endsWith(file.name, MdExt)
             THEN <<importedNote(file.name, joinPath(parentPath, file.name), file.text)>>
                  \o rest
             ELSE IF endsWith(file.name, Str_Zip)
                       /\ zipRootFolder(file, parentPath).children # <<>>
             THEN <<zipRootFolder(file, parentPath)>> \o rest
             ELSE rest

\* importFiles: the folder that receives the items (Null for the root)
importTargetOf(fs, targetItemId) ==
    LET r == findItem(fs, targetItemId)
    IN  IF r.item.type = "folder" THEN r.item ELSE r.parent

importFilesLocal(files, targetItemId) ==
    LET targetFolder == importTargetOf(fileSystem, targetItemId)
        newItems == importedItems(files, pathOrEmpty(targetFolder))
    IN  /\ storageLocation = "localStorage"
        /\ Tick
        /\ countItems(localStorageNotes) + countItems(newItems) <= MaxItems
        /\ IF newItems = <<>>
           THEN /\ UNCHANGED <<fileSystem, localStorageNotes>>
                /\ toasts' = <<Toast("info", targetItemId), Toast("info", targetItemId)>>
           ELSE /\ setLocalStorageNotes(
                       IF targetFolder.type # "null"
                       THEN addItemToFolder(localStorageNotes, targetFolder.id, newItems)
                       ELSE sortItems(localStorageNotes \o newItems))
                /\ toasts' = <<Toast("info", targetItemId), Toast("success", targetItemId)>>
        /\ lastOp' = Op("import", "ok", targetItemId, <<>>)
        /\ UNCHANGED <<sessions, storageLocation, verified, input, output, activeItem, editor,
                       isLoading,
                       directoryHandle, token,
                       needsLogin, isServerLoadInitiated, serverDisk,
                       handleDisk, inflight>>

(***************************************************************************)
(* toggleFolderOpen: closing, or opening a folder whose notes are loaded,  *)
(* only flips isOpen in the in-memory tree.                                *)
(***************************************************************************)
\* folder.children.filter(child => child.type === 'note' && !child.isContentLoaded)
notesToLoadOf(children) ==
    SelectSeq(children, LAMBDA c : c.type = "note" /\ ~c.isContentLoaded)

toggleFolderOpenSync(fid) ==
    LET folder == findItem(fileSystem, fid).item
    IN  /\ Tick
        /\ folder.type = "folder"
        /\ folder.isOpen \/ notesToLoadOf(folder.children) = <<>>
        /\ fileSystem' = updateItemRecursive(fileSystem,
                             [folder EXCEPT !.isOpen = ~folder.isOpen])
        /\ toasts' = <<>>
        /\ lastOp' = Op("toggle", "ok", fid, <<>>)
        /\ UNCHANGED <<sessions, storageLocation, verified, input, output, activeItem, editor,
                       isLoading,
                       directoryHandle, token,
                       needsLogin, isServerLoadInitiated, localStorageNotes,
                       serverDisk, handleDisk, inflight>>

(***************************************************************************)
(* A disk is the set of the entries below a base directory; the path of an *)
(* entry is the sequence of the names from the base directory down to it.  *)
(***************************************************************************)
Entry(path, dir, text) == [path |-> path, dir |-> dir, text |-> text]
DirEntry(path) == Entry(path, TRUE, plainText(<<>>))
FileEntry(path, text) == Entry(path, FALSE, text)

\* fs.existsSync, stat.isDirectory, stat.isFile, fs.readFileSync
existsSync(disk, p) == p = <<>> \/ \E e \in disk : e.path = p
isDirectory(disk, p) == p = <<>> \/ \E e \in disk : e.path = p /\ e.dir
isFile(disk, p) == \E e \in disk : e.path = p /\ ~e.dir
readFile(disk, p) == (CHOOSE e \in disk : e.path = p).text

\* the entries of the directory p, and everything below p
childrenOf(disk, p) == {e \in disk : Len(e.path) = Len(p) + 1 /\ startsWith(e.path, p)}
below(disk, p) == {e \in disk : startsWith(e.path, p) /\ e.path # p}
prefixes(p) == {SubSeq(p, 1, k) : k \in 1..Len(p)}

\* mkdirp.sync
mkdirpFails(disk, p) == \E q \in prefixes(p) : isFile(disk, q)
mkdirp(disk, p) == disk \cup {DirEntry(q) : q \in {r \in prefixes(p) : ~existsSync(disk, r)}}

\* fs.writeFileSync
writeFileFails(disk, p) == p = <<>> \/ isDirectory(disk, p) \/ ~isDirectory(disk, front(p))
writeFile(disk, p, text) == {e \in disk : e.path # p} \cup {FileEntry(p, text)}

\* fs.renameSync: a file replaces a file, a directory replaces an empty directory
renameFails(disk, old, new) ==
    /\ old # new
    /\ \/ ~isDirectory(disk, front(new))
       \/ isFile(disk, old) /\ isDirectory(disk, new)
       \/ isDirectory(disk, old)
            /\ (isFile(disk, new) \/ below(disk, new) # {} \/ startsWith(new, old))

renameSync(disk, old, new) ==
    IF old = new THEN disk
    ELSE {e \in disk : ~startsWith(e.path, old) /\ e.path # new}
         \cup {[e EXCEPT !.path = new \o SubSeq(e.path, Len(old) + 1, Len(e.path))] :
                  e \in {d \in disk : startsWith(d.path, old)}}

\* rimraf.sync and fs.unlinkSync
rimraf(disk, p) == {e \in disk : ~startsWith(e.path, p)}

\* the elements of a finite set in some order (the order of a directory read)
RECURSIVE setToSeq(_)
setToSeq(S) ==
    IF S = {} THEN <<>>
    ELSE LET x == CHOOSE y \in S : TRUE IN <<x>> \o setToSeq(S \ {x})

(***************************************************************************)
(* The routes of the server.  A response is its status and the disk the    *)
(* request leaves behind; the disk holds the directory of the user.        *)
(***************************************************************************)
User == <<"u">>

Res(status, disk) == [status |-> status, disk |-> disk]

\* p.startsWith(req.user + '/') ? p.slice(req.user.length + 1) : p
stripUser(p) ==
    IF startsWith(p, User \o Slash) THEN SubSeq(p, Len(User) + 2, Len(p)) ELSE p

\* safePath: path.resolve(base, target) leaves base for an absolute target
safePathThrows(target) == startsWith(target, Slash)

\* path.resolve(base, target) as the names below base
safePath(target) == pathParts(target)

\* POST /folders/create
routeFoldersCreate(disk, folderPath) ==
    LET full == safePath(stripUser(folderPath))
    IN  IF folderPath = <<>> THEN Res(400, disk)
        ELSE IF safePathThrows(stripUser(folderPath)) THEN Res(400, disk)
        ELSE IF existsSync(disk, full) THEN Res(400, disk)
        ELSE IF mkdirpFails(disk, full) THEN Res(400, disk)
        ELSE Res(200, mkdirp(disk, full))

\* POST /files/create
routeFilesCreate(disk, filePath, content) ==
    LET full == safePath(stripUser(filePath))
    IN  IF filePath = <<>> THEN Res(400, disk)
        ELSE IF safePathThrows(stripUser(filePath)) THEN Res(400, disk)
        ELSE IF existsSync(disk, full) THEN Res(400, disk)
        ELSE IF mkdirpFails(disk, front(full)) THEN Res(400, disk)
        ELSE Res(200, writeFile(mkdirp(disk, front(full)), full, content))

\* POST /files/update
routeFilesUpdate(disk, fileName, content) ==
    LET full == safePath(stripUser(fileName))
    IN  IF fileName = <<>> THEN Res(400, disk)
        ELSE IF safePathThrows(stripUser(fileName)) THEN Res(400, disk)
        ELSE IF ~existsSync(disk, full) THEN Res(404, disk)
        ELSE IF ~endsWith(stripUser(fileName), MdExt) THEN Res(400, disk)
        ELSE IF writeFileFails(disk, full) THEN Res(400, disk)
        ELSE Res(200, writeFile(disk, full, content))

\* POST /rename
routeRename(disk, oldPath, newPath) ==
    LET old == stripUser(oldPath)
        new == stripUser(newPath)
        fullOld == safePath(old)
        fullNew == safePath(new)
    IN  IF oldPath = <<>> \/ newPath = <<>> THEN Res(400, disk)
        ELSE IF safePathThrows(old) \/ safePathThrows(new) THEN Res(400, disk)
        ELSE IF ~existsSync(disk, fullOld) THEN Res(404, disk)
        ELSE IF isFile(disk, fullOld) /\ ~endsWith(old, MdExt) THEN Res(400, disk)
        ELSE IF isFile(disk, fullOld) /\ ~endsWith(new, MdExt) THEN Res(400, disk)
        ELSE IF isDirectory(disk, fullOld) /\ endsWith(new, MdExt) THEN Res(400, disk)
        ELSE IF mkdirpFails(disk, front(fullNew)) THEN Res(400, disk)
        ELSE IF renameFails(mkdirp(disk, front(fullNew)), fullOld, fullNew)
             THEN Res(400, mkdirp(disk, front(fullNew)))
        ELSE Res(200, renameSync(mkdirp(disk, front(fullNew)), fullOld, fullNew))

\* POST /delete
routeDelete(disk, targetPath) ==
    LET target == stripUser(targetPath)
        full == safePath(target)
    IN  IF targetPath = <<>> THEN Res(400, disk)
        ELSE IF safePathThrows(target) THEN Res(400, disk)
        ELSE IF ~existsSync(disk, full) THEN Res(404, disk)
        ELSE IF isFile(disk, full) /\ ~endsWith(target, MdExt) THEN Res(400, disk)
        ELSE Res(200, rimraf(disk, full))

\* POST /move
routeMove(disk, sourcePath, destinationPath) ==
    LET source == stripUser(sourcePath)
        destination == stripUser(destinationPath)
        fullSrc == safePath(source)
        fullDst == safePath(destination)
        moved == mkdirp(disk, front(fullDst))
    IN  IF sourcePath = <<>> \/ destinationPath = <<>> THEN Res(400, disk)
        ELSE IF safePathThrows(source) \/ safePathThrows(destination) THEN Res(400, disk)
        ELSE IF ~existsSync(disk, fullSrc) THEN Res(404, disk)
        ELSE IF isFile(disk, fullSrc) /\ ~endsWith(source, MdExt) THEN Res(400, disk)
        ELSE IF isDirectory(disk, fullSrc) /\ startsWith(join(fullDst), join(fullSrc))
             THEN Res(400, disk)
        ELSE IF mkdirpFails(disk, front(fullDst)) THEN Res(400, disk)
        ELSE IF renameFails(moved, fullSrc, fullDst) THEN Res(400, moved)
        ELSE Res(200, renameSync(moved, fullSrc, fullDst))

\* String.prototype.toLowerCase
toLowerCase(str) ==
    [k \in DOMAIN str |->
        IF isCapital(str[k]) THEN Letters[indexIn(Capitals, str[k])] ELSE str[k]]


\* POST /upload: the loop over the entries of the archive
RECURSIVE uploadEntries(_, _, _)
uploadEntries(disk, destDir, entries) ==
    IF entries = <<>> THEN Res(200, disk)
    ELSE LET entry == entries[1]
             filename == last(split(entry.path))
             relativePath == destDir \o front(pathParts(entry.path))
             fullPath == destDir \o pathParts(entry.path)
         IN  IF \/ entry.dir
                \/ ~endsWith(filename, MdExt)
                \/ toLowerCase(filename) = Str_toc
             THEN uploadEntries(disk, destDir, Tail(entries))
             ELSE IF mkdirpFails(disk, relativePath) THEN Res(400, disk)
             ELSE IF writeFileFails(mkdirp(disk, relativePath), fullPath)
                  THEN Res(400, mkdirp(disk, relativePath))
             ELSE uploadEntries(writeFile(mkdirp(disk, relativePath), fullPath, entry.text),
                                destDir, Tail(entries))

\* POST /upload
routeUpload(disk, entries, targetFolder) ==
    LET destDir == safePath(stripUser(targetFolder))
    IN  IF safePathThrows(stripUser(targetFolder)) THEN Res(400, disk)
        ELSE IF mkdirpFails(disk, destDir) THEN Res(400, disk)
        ELSE uploadEntries(mkdirp(disk, destDir), destDir, entries)

\* fileUtils.listTree of the directory baseDir, whose name is baseName
RECURSIVE listTree(_, _, _)
listTree(disk, baseDir, baseName) ==
    LET items == setToSeq({last(e.path) : e \in childrenOf(disk, baseDir)})
    IN  [type |-> "folder", name |-> baseName,
         children |-> [k \in DOMAIN items |->
             IF isDirectory(disk, Append(baseDir, items[k]))
             THEN listTree(disk, Append(baseDir, items[k]), items[k])
             ELSE [type |-> "file", name |-> items[k], children |-> <<>>]]]

\* GET /tree
routeTree(disk) == listTree(disk, <<>>, User)

\* GET /download/file: the path is resolved below DATA_ROOT, which holds
\* the directory of the user under the user's name
routeDownloadFile(disk, fileName) ==
    LET parts == safePath(fileName)
        none == plainText(<<>>)
    IN  IF fileName = <<>> THEN [status |-> 400, text |-> none]
        ELSE IF safePathThrows(fileName) THEN [status |-> 400, text |-> none]
        ELSE IF parts # <<>> /\ (parts[1] # User \/ ~existsSync(disk, Tail(parts)))
             THEN [status |-> 404, text |-> none]
        ELSE IF parts = <<>> \/ isDirectory(disk, Tail(parts))
             THEN [status |-> 500, text |-> none]
        ELSE [status |-> 200, text |-> readFile(disk, Tail(parts))]

(***************************************************************************)
(* services/serverStorage.ts                                               *)
(***************************************************************************)
RECURSIVE parseApiNode(_, _)
parseApiNode(apiNode, currentPath) ==
    LET itemPath == joinPath(currentPath, apiNode.name)
        resolvedChildren == [k \in DOMAIN apiNode.children |->
                                parseApiNode(apiNode.children[k], itemPath)]
        children == SelectSeq(resolvedChildren, LAMBDA item : item # Null)
    IN  IF apiNode.name = <<>> THEN Null
        ELSE IF apiNode.type = "folder"
        THEN Folder(folderId(itemPath), apiNode.name, sortItems(children),
                    currentPath = <<>>, itemPath)
        ELSE IF apiNode.type = "file" /\ endsWith(apiNode.name, MdExt)
        THEN Note(noteId(itemPath), stripMd(apiNode.name), <<>>, <<>>, itemPath, FALSE)
        ELSE Null

\* fetchFileSystem: the children of the root folder the server returns
fetchFileSystem(disk) ==
    LET rootItem == parseApiNode(routeTree(disk), <<>>)
    IN  IF rootItem # Null /\ rootItem.type = "folder" THEN rootItem.children ELSE <<>>

\* new Map(notes.map(n => [n.id, n])).get(id) || item
mapGetOr(notes, item) ==
    LET hits == {i \in DOMAIN notes : notes[i].id = item.id}
    IN  IF hits = {} THEN item
        ELSE notes[CHOOSE i \in hits : \A j \in hits : j <= i]

\* the answer to one fetchNoteContent(note.path), mapped by the callers'
\* then / catch: the loaded note, or the note as it was
fetchedNote(disk, note, response) ==
    LET res == routeDownloadFile(disk, note.path)
        parsedNote == parseFrontMatter(res.text)
    IN  IF response = "ok" /\ res.status = 200
        THEN [note EXCEPT !.content = parsedNote.content,
                          !.tags = tagsOf(parsedNote.data),
                          !.isContentLoaded = TRUE]
        ELSE note

\* did that fetch end in the catch
fetchFailed(disk, note, response) ==
    ~(response = "ok" /\ routeDownloadFile(disk, note.path).status = 200)

(***************************************************************************)
(* Remote HTTP Tree.  A request either reaches its route and gets the      *)
(* route's answer, or fails on the way (transport failure, or a rejection  *)
(* by the auth middleware) and leaves the disk alone.                      *)
(***************************************************************************)
Responses == {"ok", "failed", "unauthorized"}
Listings == {"ok", "failed", "unauthorized"}

\* a hook that sets the tree before it awaits the request
committedBeforeAwait(res, updated) == updated

\* the tree after "await request; setFileSystem(updated)": a request that
\* throws leaves the setFileSystem out
committed(res, updated) == IF res.status = 200 THEN updated ELSE fileSystem

\* apiFetch: the answer of the route, or no answer at all
apiFetch(response, res) ==
    IF response = "ok" THEN res
    ELSE IF response = "unauthorized" THEN Res(401, serverDisk)
    ELSE Res(0, serverDisk)

\* the ids of the root notes whose bodies a refresh fetches
rootNoteIds(disk) == {n.id : n \in seqToSet(notesToLoadOf(fetchFileSystem(disk)))}

responseFor(failing, note) == IF note.id \in failing THEN "failed" ELSE "ok"

\* refreshServerNotes with a token, up to its setFileSystem
refreshedTree(disk, failing) ==
    LET initialTree == fetchFileSystem(disk)
        rootNotesToLoad == notesToLoadOf(initialTree)
        loadedRootNotes == [i \in DOMAIN rootNotesToLoad |->
            fetchedNote(disk, rootNotesToLoad[i], responseFor(failing, rootNotesToLoad[i]))]
    IN  [k \in DOMAIN initialTree |-> mapGetOr(loadedRootNotes, initialTree[k])]

refreshToasts(disk, failing) ==
    LET rootNotesToLoad == notesToLoadOf(fetchFileSystem(disk))
        failedNotes == SelectSeq(rootNotesToLoad,
            LAMBDA n : fetchFailed(disk, n, responseFor(failing, n)))
    IN  [i \in DOMAIN failedNotes |-> Toast("error", failedNotes[i].id)]

\* the mutation of refreshServerNotes that does not ask for a login on a 401
refreshServerNotesSilent(disk, listing, failing) ==
    IF listing = "ok"
    THEN [fileSystem |-> refreshedTree(disk, failing), token |-> TRUE,
          needsLogin |-> FALSE, initiated |-> isServerLoadInitiated,
          toasts |-> refreshToasts(disk, failing),
          outcome |-> IF refreshToasts(disk, failing) = <<>> THEN "ok" ELSE "fetchFailed"]
    ELSE IF listing = "unauthorized"
    THEN [fileSystem |-> <<>>, token |-> FALSE, needsLogin |-> FALSE,
          initiated |-> FALSE, toasts |-> <<Toast("error", <<>>)>>,
          outcome |-> "relistUnauthorized"]
    ELSE [fileSystem |-> fileSystem, token |-> TRUE, needsLogin |-> FALSE,
          initiated |-> isServerLoadInitiated, toasts |-> <<Toast("error", <<>>)>>,
          outcome |-> "relistFailed"]

\* refreshServerNotes called with a token: what it leaves in the hook.  A
\* 401 clears the token, and the init effect that follows empties the tree.
refreshServerNotes(disk, listing, failing) ==
    IF listing = "ok"
    THEN [fileSystem |-> refreshedTree(disk, failing), token |-> TRUE,
          needsLogin |-> FALSE, initiated |-> isServerLoadInitiated,
          toasts |-> refreshToasts(disk, failing),
          outcome |-> IF refreshToasts(disk, failing) = <<>> THEN "ok" ELSE "fetchFailed"]
    ELSE IF listing = "unauthorized"
    THEN [fileSystem |-> <<>>, token |-> FALSE, needsLogin |-> TRUE,
          initiated |-> FALSE, toasts |-> <<Toast("error", <<>>)>>,
          outcome |-> "relistUnauthorized"]
    ELSE [fileSystem |-> fileSystem, token |-> TRUE, needsLogin |-> FALSE,
          initiated |-> isServerLoadInitiated, toasts |-> <<Toast("error", <<>>)>>,
          outcome |-> "relistFailed"]

\* the hook takes over what a refresh left
refreshApplied(r) ==
    /\ fileSystem' = r.fileSystem
    /\ token' = r.token
    /\ needsLogin' = r.needsLogin
    /\ isServerLoadInitiated' = r.initiated

\* the init effect, server branch with a token: loadConfig, then a refresh
initEffectServer(config, listing, failing) ==
    LET r == refreshServerNotes(serverDisk, listing, failing)
    IN  /\ storageLocation = "server"
        /\ token
        /\ ~isServerLoadInitiated
        /\ NoTick
        /\ IF config = "ok"
           THEN /\ refreshApplied([r EXCEPT !.initiated = (listing # "unauthorized")])
                /\ toasts' = r.toasts
                /\ lastOp' = Op("initEffect", r.outcome, <<>>, <<>>)
           ELSE IF config = "unauthorized"
           THEN /\ fileSystem' = <<>>
                /\ token' = FALSE
                /\ needsLogin' = TRUE
                /\ isServerLoadInitiated' = FALSE
                /\ toasts' = <<>>
                /\ lastOp' = Op("initEffect", "configUnauthorized", <<>>, <<>>)
           ELSE /\ isServerLoadInitiated' = TRUE
                /\ toasts' = <<>>
                /\ lastOp' = Op("initEffect", "configFailed", <<>>, <<>>)
                /\ UNCHANGED <<fileSystem, token, needsLogin>>
        /\ UNCHANGED <<sessions, storageLocation, verified, input, output, activeItem, editor,
                       directoryHandle,
                       localStorageNotes, serverDisk, handleDisk, inflight>>
        /\ isLoading' = FALSE

\* a login stores a token in the settings, which starts the init effect
loginServer ==
    /\ storageLocation = "server"
    /\ ~token
    /\ Tick
    /\ token' = TRUE
    /\ needsLogin' = FALSE
    /\ toasts' = <<>>
    /\ lastOp' = Op("login", "ok", <<>>, <<>>)
    /\ UNCHANGED <<sessions, storageLocation, verified, input, output, activeItem, editor,
                       isLoading,
                   directoryHandle,
                   isServerLoadInitiated, fileSystem, localStorageNotes,
                   serverDisk, handleDisk, inflight>>

addItemServer(type, activeItemId, response) ==
    LET targetParent == targetParentOf(fileSystem, activeItemId)
        newItemPath == joinPath(pathOrEmpty(targetParent),
                                baseNameOf(type, newItemNameOf(type)))
        newItem == newItemOf(type, newItemPath)
        res == apiFetch(response,
                 IF type = "folder"
                 THEN routeFoldersCreate(serverDisk, newItemPath)
                 ELSE routeFilesCreate(serverDisk, newItemPath,
                          stringifyFrontMatter(newItem.id, <<>>, <<>>)))
    IN  /\ storageLocation = "server"
        /\ Tick
        /\ Cardinality(serverDisk) < MaxItems
        /\ IF ~token
           THEN /\ toasts' = <<Toast("error", activeItemId)>>
                /\ lastOp' = Op("add", "skipped", activeItemId, <<>>)
                /\ UNCHANGED <<fileSystem, serverDisk>>
           ELSE /\ serverDisk' = res.disk
                /\ fileSystem' = committed(res,
                       insertNewItem(fileSystem, targetParent, newItem))
                /\ IF res.status = 200
                   THEN /\ toasts' = <<>>
                        /\ lastOp' = Op("add", "ok", activeItemId, newItem.id)
                   ELSE /\ toasts' = <<Toast("error", activeItemId)>>
                        /\ lastOp' = Op("add", "failed", activeItemId, <<>>)
        /\ UNCHANGED <<sessions, storageLocation, verified, input, output, activeItem, editor,
                       isLoading,
                       directoryHandle, token,
                       needsLogin, isServerLoadInitiated,
                       localStorageNotes, handleDisk, inflight>>

\* renameItem, server branch: the optimistic update of the descendants
RECURSIVE updateChildrenPaths(_, _)
updateChildrenPaths(children, newParentPath) ==
    [k \in DOMAIN children |->
        LET child == children[k]
            newChildPath == joinPath(newParentPath, baseNameOf(child.type, child.name))
            newChildId == derivedId(child.type, newChildPath)
        IN  IF child.type = "folder"
            THEN [child EXCEPT !.path = newChildPath, !.id = newChildId,
                               !.children = updateChildrenPaths(@, newChildPath)]
            ELSE [child EXCEPT !.path = newChildPath, !.id = newChildId]]

\* the item renameItem puts in the place of the renamed one
renamedItem(item, newName, newPath) ==
    IF item.type = "folder"
    THEN [item EXCEPT !.name = newName, !.path = newPath,
                      !.id = derivedId(item.type, newPath),
                      !.children = updateChildrenPaths(@, newPath)]
    ELSE [item EXCEPT !.name = newName, !.path = newPath,
                      !.id = derivedId(item.type, newPath)]

renameItemServer(id, newName, response, op) ==
    LET item == findItem(fileSystem, id).item
        newPath == renamedPath(fileSystem, id, newName)
        res == apiFetch(response, routeRename(serverDisk, item.path, newPath))
    IN  /\ storageLocation = "server"
        /\ Tick
        /\ item # Null
        /\ item.name # newName
        /\ token
        /\ serverDisk' = res.disk
        /\ fileSystem' = committed(res,
               findAndReplaceItem(fileSystem, id, renamedItem(item, newName, newPath)))
        /\ IF res.status = 200
           THEN /\ toasts' = <<Toast("success", id)>>
                /\ lastOp' = Op(op, "ok", id, renamedId(fileSystem, id, newName))
           ELSE /\ toasts' = <<Toast("error", id)>>
                /\ lastOp' = Op(op, "failed", id, <<>>)
        /\ UNCHANGED <<sessions, storageLocation, verified, input, output, activeItem, editor,
                       isLoading,
                       directoryHandle, token,
                       needsLogin, isServerLoadInitiated,
                       localStorageNotes, handleDisk, inflight>>

\* updateNote, server branch (a changed name turns it into a rename)
updateNoteServer(id, content, name, tags, response) ==
    LET noteInState == findItem(fileSystem, id).item
        res == apiFetch(response,
                   routeFilesUpdate(serverDisk, noteInState.path,
                                    stringifyFrontMatter(id, tags, content)))
    IN  /\ storageLocation = "server"
        /\ noteInState.type = "note"
        /\ IF noteInState.name # name
           THEN renameItemServer(id, name, response, "updateRename")
           ELSE /\ Tick
                /\ noteInState.content # content \/ noteInState.tags # tags
                /\ token
                /\ serverDisk' = res.disk
                /\ fileSystem' = committed(res, updateItemRecursive(fileSystem,
                       [noteInState EXCEPT !.content = content, !.tags = tags,
                                           !.isContentLoaded = TRUE]))
                /\ IF res.status = 200
                   THEN /\ toasts' = <<>>
                        /\ lastOp' = Op("update", "ok", id, <<>>)
                   ELSE /\ toasts' = <<Toast("error", id)>>
                        /\ lastOp' = Op("update", "failed", id, <<>>)
                /\ UNCHANGED <<storageLocation, verified, input, output, activeItem, editor,
                       isLoading, sessions,
                               directoryHandle, token,
                               needsLogin, isServerLoadInitiated,
                               localStorageNotes, handleDisk, inflight>>

deleteItemServer(id, response) ==
    LET item == findItem(fileSystem, id).item
        res == apiFetch(response, routeDelete(serverDisk, item.path))
    IN  /\ storageLocation = "server"
        /\ Tick
        /\ item # Null
        /\ token
        /\ serverDisk' = res.disk
        /\ fileSystem' = committed(res, deleteItemRecursive(fileSystem, id))
        /\ IF res.status = 200
           THEN /\ toasts' = <<Toast("success", id)>>
                /\ lastOp' = Op("delete", "ok", id, <<>>)
           ELSE /\ toasts' = <<Toast("error", id)>>
                /\ lastOp' = Op("delete", "failed", id, <<>>)
        /\ UNCHANGED <<sessions, storageLocation, verified, input, output, activeItem, editor,
                       isLoading,
                       directoryHandle, token,
                       needsLogin, isServerLoadInitiated,
                       localStorageNotes, handleDisk, inflight>>

\* how the re-list of a refresh can go: the listing, and the root notes
\* whose body fetch fails
Relist(listing, failing) == [listing |-> listing, failing |-> failing]
OkRelist == Relist("ok", {})
Relists(disk) ==
    {Relist("ok", f) : f \in SUBSET rootNoteIds(disk)}
        \cup {Relist("failed", {}), Relist("unauthorized", {})}

moveItemServer(itemId, targetFolderId, response, relist) ==
    LET sourceItem == findItem(fileSystem, itemId).item
        targetFolder == findItem(fileSystem, targetFolderId).item
        destinationPath == joinPath(targetFolder.path, sourceNameOf(itemId))
        res == apiFetch(response, routeMove(serverDisk, sourceItem.path, destinationPath))
        r == refreshServerNotes(res.disk, relist.listing, relist.failing)
    IN  /\ storageLocation = "server"
        /\ Tick
        /\ moveAccepted(itemId, targetFolderId)
        /\ token
        /\ response = "ok" \/ relist = OkRelist
        /\ serverDisk' = res.disk
        /\ IF res.status = 200
           THEN /\ refreshApplied(r)
                /\ toasts' = Append(r.toasts, Toast("success", itemId))
                /\ lastOp' = Op("move", r.outcome, itemId, targetFolderId)
           ELSE /\ toasts' = <<Toast("error", itemId)>>
                /\ lastOp' = Op("move", "failed", itemId, targetFolderId)
                /\ UNCHANGED <<fileSystem, token, needsLogin, isServerLoadInitiated>>
        /\ UNCHANGED <<sessions, storageLocation, verified, input, output, activeItem, editor,
                       directoryHandle,
                       localStorageNotes, handleDisk, inflight>>
        /\ isLoading' = (IF res.status = 200 THEN FALSE ELSE isLoading)

\* importFiles, server branch: the requests of the loop over the files, of
\* which the one numbered lost (0 for none) fails on the way
RECURSIVE importRequests(_, _, _, _, _)
importRequests(disk, files, k, parentPath, lost) ==
    IF k > Len(files) THEN Res(200, disk)
    ELSE LET file == files[k]
             res == IF endsWith(file.name, MdExt)
                    THEN routeFilesCreate(disk, joinPath(parentPath, file.name), file.text)
                    ELSE routeUpload(disk, file.entries, parentPath)
         IN  IF ~endsWith(file.name, MdExt) /\ ~endsWith(file.name, Str_Zip)
             THEN importRequests(disk, files, k + 1, parentPath, lost)
             ELSE IF k = lost THEN Res(0, disk)
             ELSE IF res.status # 200 THEN res
             ELSE importRequests(res.disk, files, k + 1, parentPath, lost)

\* the entries an import can add to a disk
importSize(files) == Len(files) + Len(flattenEntries(files))

importFilesServer(files, targetItemId, lost, relist) ==
    LET parentPath == IF targetItemId = <<>> THEN <<>>
                      ELSE pathOrEmpty(importTargetOf(fileSystem, targetItemId))
        res == importRequests(serverDisk, files, 1, parentPath, lost)
        r == refreshServerNotes(res.disk, relist.listing, relist.failing)
    IN  /\ storageLocation = "server"
        /\ Tick
        /\ Cardinality(serverDisk) + importSize(files) <= MaxItems
        /\ lost = 0 \/ relist = OkRelist
        /\ IF ~token
           THEN /\ toasts' = <<Toast("error", targetItemId)>>
                /\ lastOp' = Op("import", "skipped", targetItemId, <<>>)
                /\ UNCHANGED <<fileSystem, token, needsLogin, isServerLoadInitiated,
                               serverDisk>>
           ELSE /\ serverDisk' = res.disk
                /\ IF res.status = 200
                   THEN /\ refreshApplied(r)
                        /\ toasts' = <<Toast("info", targetItemId)>> \o r.toasts
                                        \o <<Toast("success", targetItemId)>>
                        /\ lastOp' = Op("import", r.outcome, targetItemId, <<>>)
                   ELSE /\ toasts' = <<Toast("info", targetItemId),
                                       Toast("error", targetItemId)>>
                        /\ lastOp' = Op("import", "failed", targetItemId, <<>>)
                        /\ UNCHANGED <<fileSystem, token, needsLogin,
                                       isServerLoadInitiated>>
        /\ UNCHANGED <<sessions, storageLocation, verified, input, output, activeItem, editor,
                       directoryHandle,
                       localStorageNotes, handleDisk, inflight>>
        /\ isLoading' = (IF token /\ res.status = 200 THEN FALSE ELSE isLoading)

(***************************************************************************)
(* Lazy loading.  A load in flight is the snapshot its closure holds: the  *)
(* folder (for an expansion), the notes to fetch, the result of every      *)
(* settled fetch (Null while it is pending) and the error toasts raised.   *)
(***************************************************************************)
Load(kind, folder, notes, results, errors) ==
    [kind |-> kind, folder |-> folder, notes |-> notes, results |-> results,
     errors |-> errors]

removeAt(seq, k) == SubSeq(seq, 1, k - 1) \o SubSeq(seq, k + 1, Len(seq))

loadNoteContentStart(nid) ==
    LET item == findItem(fileSystem, nid).item
    IN  /\ Tick
        /\ item.type = "note"
        /\ ~item.isContentLoaded
        /\ storageLocation = "server"
        /\ Len(inflight) < MaxInflight
        /\ inflight' = Append(inflight, Load("load", Null, <<item>>, <<Null>>, <<>>))
        /\ toasts' = <<>>
        /\ lastOp' = Op("load", "started", nid, <<>>)
        /\ UNCHANGED <<sessions, storageLocation, verified, input, output, activeItem, editor,
                       isLoading,
                       directoryHandle, token,
                       needsLogin, isServerLoadInitiated,
                       fileSystem, localStorageNotes, serverDisk, handleDisk>>

\* the response to the fetch of loadNoteContent arrives
loadNoteContentSettles(k, response) ==
    LET item == inflight[k].notes[1]
    IN  /\ NoTick
        /\ inflight[k].kind = "load"
        /\ inflight' = removeAt(inflight, k)
        /\ IF fetchFailed(serverDisk, item, response)
           THEN /\ toasts' = <<Toast("error", item.id)>>
                /\ lastOp' = Op("loadSettled", "failed", item.id, inflight[k])
                /\ UNCHANGED fileSystem
           ELSE /\ fileSystem' = updateItemRecursive(fileSystem,
                                     fetchedNote(serverDisk, item, response))
                /\ toasts' = <<>>
                /\ lastOp' = Op("loadSettled", "ok", item.id, inflight[k])
        /\ UNCHANGED <<sessions, storageLocation, verified, input, output, activeItem, editor,
                       isLoading,
                       directoryHandle, token,
                       needsLogin, isServerLoadInitiated,
                       localStorageNotes, serverDisk, handleDisk>>

\* toggleFolderOpen of a closed folder with unloaded notes, up to its await
toggleFolderOpenStart(fid) ==
    LET folder == findItem(fileSystem, fid).item
        notesToLoad == notesToLoadOf(folder.children)
    IN  /\ Tick
        /\ folder.type = "folder"
        /\ ~folder.isOpen
        /\ notesToLoad # <<>>
        /\ Len(inflight) < MaxInflight
        /\ fileSystem' = updateItemRecursive(fileSystem,
               [folder EXCEPT !.isOpen = TRUE, !.isLoadingContents = TRUE])
        /\ inflight' = Append(inflight,
               Load("batch", folder, notesToLoad,
                    [i \in DOMAIN notesToLoad |-> Null], <<>>))
        /\ toasts' = <<>>
        /\ lastOp' = Op("toggle", "started", fid, <<>>)
        /\ UNCHANGED <<sessions, storageLocation, verified, input, output, activeItem, editor,
                       isLoading,
                       directoryHandle, token,
                       needsLogin, isServerLoadInitiated,
                       localStorageNotes, serverDisk, handleDisk>>

\* toggleFolderOpen after Promise.all: the folder of the snapshot with the
\* results mapped over its children
finalFolderState(batch) ==
    LET folder == batch.folder
        updatedChildren == [c \in DOMAIN folder.children |->
                               mapGetOr(batch.results, folder.children[c])]
    IN  [folder EXCEPT !.isOpen = TRUE, !.isLoadingContents = FALSE,
                       !.children = sortItems(updatedChildren)]

\* the response to the i-th fetch of an expansion arrives; the last one to
\* arrive resolves Promise.all and the rest of toggleFolderOpen runs
fetchNoteContentSettles(k, i, response) ==
    LET batch == inflight[k]
        note == batch.notes[i]
        failed == fetchFailed(serverDisk, note, response)
        settled == [batch EXCEPT
                       !.results[i] = fetchedNote(serverDisk, note, response),
                       !.errors = IF failed THEN Append(@, Toast("error", note.id))
                                  ELSE @]
    IN  /\ NoTick
        /\ batch.kind = "batch"
        /\ batch.results[i] = Null
        /\ toasts' = IF failed THEN <<Toast("error", note.id)>> ELSE <<>>
        /\ IF \A j \in DOMAIN settled.results : settled.results[j] # Null
           THEN /\ fileSystem' = updateItemRecursive(fileSystem, finalFolderState(settled))
                /\ inflight' = removeAt(inflight, k)
                /\ lastOp' = Op("batchApplied", "ok", batch.folder.id, settled)
           ELSE /\ inflight' = [inflight EXCEPT ![k] = settled]
                /\ lastOp' = Op("fetchSettled", IF failed THEN "failed" ELSE "ok",
                                note.id, <<>>)
                /\ UNCHANGED fileSystem
        /\ UNCHANGED <<sessions, storageLocation, verified, input, output, activeItem, editor,
                       isLoading,
                       directoryHandle, token,
                       needsLogin, isServerLoadInitiated,
                       localStorageNotes, serverDisk, handleDisk>>

(***************************************************************************)
(* Native Handle Tree.  The picked directory is a disk; a handle is the    *)
(* path of its entry.  A call on a handle can fail for reasons outside the *)
(* hook (permission withdrawn, entry changed by another program): the      *)
(* fault of an operation names the call that fails, "none" when none does. *)
(***************************************************************************)
RECURSIVE readDirectory(_, _, _)
readDirectory(disk, dirHandle, path) ==
    LET entries == setToSeq(childrenOf(disk, dirHandle))
        items == [k \in DOMAIN entries |->
            LET entry == entries[k]
                name == last(entry.path)
                entryPath == joinPath(path, name)
                parsed == parseFrontMatter(entry.text)
            IN  IF ~entry.dir /\ endsWith(name, MdExt)
                THEN Note(IF parsed.data.id # <<>> THEN parsed.data.id
                          ELSE noteId(entryPath),
                          stripMd(name), parsed.content, tagsOf(parsed.data),
                          entryPath, TRUE)
                ELSE IF entry.dir /\ ~startsWith(name, <<".">>)
                THEN Folder(folderId(entryPath), name,
                            readDirectory(disk, entry.path, entryPath), FALSE, entryPath)
                ELSE Null]
    IN  sortItems(SelectSeq(items, LAMBDA item : item # Null))

\* getFileHandle / getDirectoryHandle with create find an entry of the other kind
overlayFails(disk, copies) ==
    \E c \in copies : IF c.dir THEN isFile(disk, c.path) ELSE isDirectory(disk, c.path)

\* the disk with the copies written over it
overlay(disk, copies) ==
    {d \in disk : \A c \in copies : c.path # d.path} \cup copies

\* copyItem(sourceHandle, targetDirHandle): the entries it writes
copiesOf(disk, sourceHandle, targetDirHandle) ==
    {[e EXCEPT !.path = targetDirHandle
                            \o SubSeq(e.path, Len(sourceHandle), Len(e.path))] :
        e \in {d \in disk : startsWith(d.path, sourceHandle)}}

copyItem(disk, sourceHandle, targetDirHandle) ==
    overlay(disk, copiesOf(disk, sourceHandle, targetDirHandle))

\* renameItem without handle.move: the entries written under the new name
renameCopies(disk, type, src, dst) ==
    IF type = "note" THEN {FileEntry(dst, readFile(disk, src))}
    ELSE {DirEntry(dst)}
         \cup {[e EXCEPT !.path = dst \o SubSeq(e.path, Len(src) + 1, Len(e.path))] :
                  e \in below(disk, src)}

\* the handle of the item is of the kind the tree says
handleMatches(disk, type, p) ==
    p # <<>> /\ IF type = "note" THEN isFile(disk, p) ELSE isDirectory(disk, p)

\* what an operation of the native backend leaves: the outcome, the disk,
\* and the tree read back from the disk when the operation got that far
fsDone(outcome, disk) == [outcome |-> outcome, disk |-> disk]

\* the hook takes over what an operation of the native backend left: the
\* tree is read back from the disk only when no call before it has thrown
fsApplied(r, op, id, ret, okToasts, errToasts) ==
    /\ handleDisk' = r.disk
    /\ fileSystem' = IF r.outcome \in {"ok", "fallback"}
                     THEN readDirectory(r.disk, <<>>, <<>>)
                     ELSE fileSystem
    /\ toasts' = IF r.outcome = "ok" THEN okToasts
                 ELSE IF r.outcome = "fallback"
                 THEN <<errToasts[Len(errToasts)]>> \o okToasts
                 ELSE IF r.outcome = "threw" THEN <<>>
                 ELSE errToasts
    /\ lastOp' = Op(op, r.outcome, id, ret)
    /\ UNCHANGED <<sessions, storageLocation, verified, input, output, activeItem, editor,
                       isLoading,
                   directoryHandle, token, needsLogin,
                   isServerLoadInitiated, localStorageNotes, serverDisk, inflight>>

\* the init effect, file system branch: the stored handle, if permitted
initEffectFS(granted) ==
    /\ storageLocation = "fileSystem"
    /\ ~directoryHandle
    /\ NoTick
    /\ directoryHandle' = granted
    /\ verified' = IF granted THEN "read" ELSE "none"
    /\ fileSystem' = IF granted THEN readDirectory(handleDisk, <<>>, <<>>) ELSE <<>>
    /\ toasts' = <<>>
    /\ lastOp' = Op("initEffect", IF granted THEN "ok" ELSE "needsPicker", <<>>, <<>>)
    /\ UNCHANGED <<sessions, storageLocation, input, output, activeItem, editor,
                       token, needsLogin,
                   isServerLoadInitiated,
                   localStorageNotes, serverDisk, handleDisk, inflight>>
    /\ isLoading' = FALSE

\* pickDirectory: the user picks the directory of the model and is asked for
\* the permission to read and write
pickDirectory(granted, fault) ==
    LET welcome == <<Str_Welcome \o MdExt>>
        picked == IF existsSync(handleDisk, welcome) THEN handleDisk
                  ELSE writeFile(handleDisk, welcome,
                           stringifyFrontMatter(noteId(Str_Welcome \o MdExt),
                                                <<"welcome", "guide">>, WELCOME_CONTENT))
    IN  /\ storageLocation = "fileSystem"
        /\ Tick
        /\ fault \in {"none", "list"}
        /\ IF ~granted
           THEN /\ toasts' = <<Toast("error", <<>>)>>
                /\ lastOp' = Op("pickDirectory", "denied", <<>>, <<>>)
                /\ UNCHANGED <<verified, directoryHandle, handleDisk, fileSystem, isLoading>>
           ELSE IF isDirectory(handleDisk, welcome)
           THEN /\ verified' = "readwrite"
                /\ toasts' = <<Toast("error", <<>>)>>
                /\ lastOp' = Op("pickDirectory", "failed", <<>>, <<>>)
                /\ UNCHANGED <<directoryHandle, handleDisk, fileSystem, isLoading>>
           ELSE IF fault = "list"
           THEN /\ verified' = "readwrite"
                /\ directoryHandle' = TRUE
                /\ handleDisk' = picked
                /\ isLoading' = TRUE
                /\ toasts' = <<Toast("error", <<>>)>>
                /\ lastOp' = Op("pickDirectory", "listFailed", <<>>, <<>>)
                /\ UNCHANGED fileSystem
           ELSE /\ verified' = "readwrite"
                /\ directoryHandle' = TRUE
                /\ handleDisk' = picked
                /\ fileSystem' = readDirectory(picked, <<>>, <<>>)
                /\ isLoading' = FALSE
                /\ toasts' = <<Toast("success", <<>>)>>
                /\ lastOp' = Op("pickDirectory", "ok", <<>>, <<>>)
        /\ UNCHANGED <<sessions, storageLocation, input, output, activeItem, editor,
                       token, needsLogin,
                       isServerLoadInitiated, localStorageNotes, serverDisk, inflight>>

addItemResultFS(disk, type, parentPath, newItemPath, fault) ==
    LET parentHandle == pathParts(parentPath)
        full == Append(parentHandle, baseNameOf(type, newItemNameOf(type)))
        written == IF type = "folder" THEN disk \cup {DirEntry(full)}
                   ELSE writeFile(disk, full,
                            stringifyFrontMatter(noteId(newItemPath), <<>>, <<>>))
    IN  IF ~isDirectory(disk, parentHandle) THEN fsDone("threw", disk)
        ELSE IF fault = "walk" /\ parentHandle # <<>> THEN fsDone("threw", disk)
        ELSE IF fault = "write" THEN fsDone("failed", disk)
        ELSE IF type = "folder" /\ isFile(disk, full) THEN fsDone("failed", disk)
        ELSE IF type = "note" /\ isDirectory(disk, full) THEN fsDone("failed", disk)
        ELSE IF fault = "list" THEN fsDone("listFailed", written)
        ELSE fsDone("ok", written)

addItemFS(type, activeItemId, fault) ==
    LET targetParent == targetParentOf(fileSystem, activeItemId)
        parentPath == pathOrEmpty(targetParent)
        newItemPath == joinPath(parentPath, baseNameOf(type, newItemNameOf(type)))
        r == addItemResultFS(handleDisk, type, parentPath, newItemPath, fault)
    IN  /\ storageLocation = "fileSystem"
        /\ directoryHandle
        /\ Tick
        /\ Cardinality(handleDisk) < MaxItems
        /\ fault \in {"none", "walk", "write", "list"}
        /\ fsApplied(r, "add", activeItemId, derivedId(type, newItemPath),
                     <<>>, <<Toast("error", activeItemId)>>)

\* parentHandle.move is not part of every browser; where it is, it is not
\* the two-name call the hook makes: it rejects, or renames as the hook means
MoveModes == {"absent", "rejects", "renames"}

renameItemResultFS(disk, item, newBaseName, moveMode, fault) ==
    LET oldPathParts == pathParts(item.path)
        parentHandle == front(oldPathParts)
        dst == Append(parentHandle, newBaseName)
        copies == renameCopies(disk, item.type, oldPathParts, dst)
    IN  IF oldPathParts = <<>> THEN fsDone("failed", disk)
        ELSE IF ~isDirectory(disk, parentHandle) THEN fsDone("failed", disk)
        ELSE IF moveMode = "rejects" \/ fault = "write" THEN fsDone("failed", disk)
        ELSE IF ~handleMatches(disk, item.type, oldPathParts) THEN fsDone("failed", disk)
        ELSE IF overlayFails(disk, copies) THEN fsDone("failed", disk)
        ELSE IF fault = "remove" THEN fsDone("failed", overlay(disk, copies))
        ELSE IF fault = "list"
             THEN fsDone("listFailed", rimraf(overlay(disk, copies), oldPathParts))
        ELSE fsDone("ok", rimraf(overlay(disk, copies), oldPathParts))

renameItemFS(id, newName, moveMode, fault, op) ==
    LET item == findItem(fileSystem, id).item
        r == renameItemResultFS(handleDisk, item, baseNameOf(item.type, newName),
                                moveMode, fault)
    IN  /\ storageLocation = "fileSystem"
        /\ directoryHandle
        /\ Tick
        /\ item # Null
        /\ item.name # newName
        /\ fault \in {"none", "write", "remove", "list"}
        /\ moveMode # "absent" => fault \in {"none", "list"}
        /\ fsApplied(r, op, id, renamedId(fileSystem, id, newName),
                     <<Toast("success", id)>>, <<Toast("error", id)>>)

updateNoteFS(id, content, name, tags, fault) ==
    LET noteInState == findItem(fileSystem, id).item
        fileHandle == pathParts(noteInState.path)
        fails == \/ ~isDirectory(handleDisk, front(fileHandle))
                 \/ ~isFile(handleDisk, fileHandle)
                 \/ fault = "write"
    IN  /\ storageLocation = "fileSystem"
        /\ directoryHandle
        /\ noteInState.type = "note"
        /\ fault \in {"none", "write"}
        /\ IF noteInState.name # name
           THEN renameItemFS(id, name, "absent", fault, "updateRename")
           ELSE /\ Tick
                /\ noteInState.content # content \/ noteInState.tags # tags
                /\ fileHandle # <<>>
                /\ handleDisk' = IF fails THEN handleDisk
                                 ELSE writeFile(handleDisk, fileHandle,
                                          stringifyFrontMatter(id, tags, content))
                /\ fileSystem' = IF fails THEN fileSystem
                                 ELSE updateItemRecursive(fileSystem,
                                          [noteInState EXCEPT !.content = content,
                                               !.name = name, !.tags = tags,
                                               !.isContentLoaded = TRUE])
                /\ toasts' = IF fails THEN <<Toast("error", id)>> ELSE <<>>
                /\ lastOp' = Op("update", IF fails THEN "failed" ELSE "ok", id, <<>>)
                /\ UNCHANGED <<storageLocation, verified, input, output, activeItem, editor,
                       isLoading, sessions,
                               directoryHandle, token,
                               needsLogin,
                               isServerLoadInitiated, localStorageNotes, serverDisk,
                               inflight>>

deleteItemResultFS(disk, item, fault) ==
    LET handle == pathParts(item.path)
    IN  IF ~isDirectory(disk, front(handle)) THEN fsDone("failed", disk)
        ELSE IF ~existsSync(disk, handle) \/ fault = "remove" THEN fsDone("failed", disk)
        ELSE IF item.type = "note" /\ below(disk, handle) # {} THEN fsDone("failed", disk)
        ELSE IF fault = "list" THEN fsDone("listFailed", rimraf(disk, handle))
        ELSE fsDone("ok", rimraf(disk, handle))

deleteItemFS(id, fault) ==
    LET item == findItem(fileSystem, id).item
    IN  /\ storageLocation = "fileSystem"
        /\ directoryHandle
        /\ Tick
        /\ item # Null
        /\ pathParts(item.path) # <<>>
        /\ fault \in {"none", "remove", "list"}
        /\ fsApplied(deleteItemResultFS(handleDisk, item, fault), "delete", id, <<>>,
                     <<Toast("success", id)>>, <<Toast("error", id)>>)

moveItemResultFS(disk, sourceItem, targetFolder, fault) ==
    LET sourceHandle == pathParts(sourceItem.path)
        destDirHandle == pathParts(targetFolder.path)
        copies == copiesOf(disk, sourceHandle, destDirHandle)
    IN  IF sourceHandle = <<>> THEN fsDone("failed", disk)
        ELSE IF ~isDirectory(disk, front(sourceHandle)) THEN fsDone("failed", disk)
        ELSE IF ~handleMatches(disk, sourceItem.type, sourceHandle)
             THEN fsDone("failed", disk)
        ELSE IF ~isDirectory(disk, destDirHandle) THEN fsDone("failed", disk)
        ELSE IF fault = "write" \/ overlayFails(disk, copies) THEN fsDone("failed", disk)
        ELSE IF fault = "remove" THEN fsDone("failed", copyItem(disk, sourceHandle, destDirHandle))
        ELSE IF fault = "list"
             THEN fsDone("listFailed", rimraf(copyItem(disk, sourceHandle, destDirHandle), sourceHandle))
        ELSE fsDone("ok", rimraf(copyItem(disk, sourceHandle, destDirHandle), sourceHandle))

moveItemFS(itemId, targetFolderId, fault) ==
    LET sourceItem == findItem(fileSystem, itemId).item
        targetFolder == findItem(fileSystem, targetFolderId).item
    IN  /\ storageLocation = "fileSystem"
        /\ directoryHandle
        /\ Tick
        /\ moveAccepted(itemId, targetFolderId)
        /\ fault \in {"none", "write", "remove", "list"}
        /\ fsApplied(moveItemResultFS(handleDisk, sourceItem, targetFolder, fault),
                     "move", itemId, targetFolderId,
                     <<Toast("success", itemId)>>, <<Toast("error", itemId)>>)

\* processZipEntry, file system branch: every entry that is not a directory
\* is written, whatever its extension
processZipEntryFS(disk, targetDirHandle, entry) ==
    LET parts == SelectSeq(split(entry.path),
                           LAMBDA q : q # <<".">> /\ q # <<".", ".">>)
        dirs == targetDirHandle \o front(parts)
        full == targetDirHandle \o parts
        made == mkdirp(disk, dirs)
    IN  IF parts = <<>> \/ startsWith(entry.path, Str_MACOSX) THEN fsDone("ok", disk)
        ELSE IF (\E k \in 1..(Len(parts) - 1) : parts[k] = <<>>) \/ mkdirpFails(disk, dirs)
             THEN fsDone("failed", disk)
        ELSE IF ~entry.dir
             THEN IF last(parts) = <<>> \/ isDirectory(made, full)
                  THEN fsDone("failed", made)
                  ELSE fsDone("ok", writeFile(made, full, entry.text))
        ELSE IF last(parts) # <<>>
             THEN IF isFile(made, full) THEN fsDone("failed", made)
                  ELSE fsDone("ok", made \cup {DirEntry(full)})
        ELSE fsDone("ok", made)

RECURSIVE processZipEntriesFS(_, _, _)
processZipEntriesFS(disk, targetDirHandle, entries) ==
    IF entries = <<>> THEN fsDone("ok", disk)
    ELSE LET r == processZipEntryFS(disk, targetDirHandle, entries[1])
         IN  IF r.outcome # "ok" THEN r
             ELSE processZipEntriesFS(r.disk, targetDirHandle, Tail(entries))

\* the loop over the dropped files; a call that throws ends it
RECURSIVE importLoopFS(_, _, _)
importLoopFS(disk, targetDirHandle, files) ==
    IF files = <<>> THEN fsDone("ok", disk)
    ELSE LET file == files[1]
             full == Append(targetDirHandle, file.name)
             r == IF endsWith(file.name, MdExt)
                  THEN IF isDirectory(disk, full) THEN fsDone("failed", disk)
                       ELSE fsDone("ok", writeFile(disk, full, file.text))
                  ELSE IF endsWith(file.name, Str_Zip)
                  THEN processZipEntriesFS(disk, targetDirHandle, file.entries)
                  ELSE fsDone("ok", disk)
         IN  IF r.outcome # "ok" THEN r
             ELSE importLoopFS(r.disk, targetDirHandle, Tail(files))

importFilesResultFS(disk, files, targetItem, fault) ==
    LET wanted == pathParts(pathOrEmpty(targetItem))
        found == isDirectory(disk, wanted) /\ fault # "walk"
        targetDirHandle == IF found THEN wanted ELSE <<>>
        r == importLoopFS(disk, targetDirHandle, files)
    IN  IF fault = "write" THEN fsDone("failed", disk)
        ELSE IF r.outcome # "ok" THEN r
        ELSE IF fault = "list" THEN fsDone("listFailed", r.disk)
        ELSE IF found THEN r
        ELSE fsDone("fallback", r.disk)

importFilesFS(files, targetItemId, fault) ==
    LET targetItem == IF targetItemId = <<>> THEN Null
                      ELSE importTargetOf(fileSystem, targetItemId)
    IN  /\ storageLocation = "fileSystem"
        /\ directoryHandle
        /\ Tick
        /\ Cardinality(handleDisk) + importSize(files) <= MaxItems
        /\ fault \in {"none", "walk", "write", "list"}
        /\ fault = "walk" => pathOrEmpty(targetItem) # <<>>
        /\ fsApplied(importFilesResultFS(handleDisk, files, targetItem, fault),
                     "import", targetItemId, <<>>,
                     <<Toast("info", targetItemId), Toast("success", targetItemId)>>,
                     <<Toast("info", targetItemId), Toast("error", targetItemId)>>)

(***************************************************************************)
(* The Local Persisted Store on its own.                                   *)
(***************************************************************************)
EmptyDisk == {}

InitLocal ==
    /\ storageLocation = "localStorage"
    /\ token = FALSE
    /\ needsLogin = FALSE
    /\ isServerLoadInitiated = FALSE
    /\ directoryHandle = FALSE
    /\ fileSystem = initialFileSystem
    /\ localStorageNotes = initialFileSystem
    /\ serverDisk = EmptyDisk
    /\ handleDisk = EmptyDisk
    /\ inflight = <<>>
    /\ toasts = <<>>
    /\ lastOp = Op("init", "ok", <<>>, <<>>)
    /\ steps = MaxLocalSteps
    /\ verified = "none"
    /\ activeItem = <<>>
    /\ editor = NoEditor
    /\ isLoading = FALSE
    /\ sessions = NoSessions
    /\ input = <<>>
    /\ output = <<>>

NextLocal ==
    \/ \E type \in ItemTypes, a \in ActiveIds : addItemLocal(type, a)
    \/ \E id \in allIds(fileSystem), n \in Names : renameItemLocal(id, n, "rename")
    \/ \E id \in allIds(fileSystem), n \in BlankNames : renameItemLocal(id, n, "rename")
    \/ \E id \in allIds(fileSystem), c \in Contents, t \in TagLists :
          \E n \in Names \cup {findItem(fileSystem, id).item.name} :
            updateNoteLocal(id, c, n, t)
    \/ \E id \in allIds(fileSystem) : deleteItemLocal(id)
    \/ \E id \in allIds(fileSystem), t \in allIds(fileSystem) : moveItemLocal(id, t)
    \/ \E id \in allIds(fileSystem), t \in allIds(fileSystem) : moveItemRejected(id, t)
    \/ \E files \in ImportBatches, a \in ActiveIds : importFilesLocal(files, a)
    \/ \E id \in allIds(fileSystem) : toggleFolderOpenSync(id)

SpecLocal == InitLocal /\ [][NextLocal]_vars

(***************************************************************************)
(* The Remote HTTP Tree on its own: a logged-in user whose directory holds *)
(* a folder with two notes and a note beside it.                           *)
(***************************************************************************)
Str_F == <<"F">>
Str_A_md == <<"A", ".", "m", "d">>
Str_AB_md == <<"A", "B", ".", "m", "d">>
Str_r_md == <<"r", ".", "m", "d">>

InitialServerDisk ==
    { DirEntry(<<Str_F>>),
      FileEntry(<<Str_F, Str_A_md>>, Text(TRUE, <<>>, TRUE, <<"t">>, <<"x">>)),
      FileEntry(<<Str_F, Str_AB_md>>, plainText(<<"y">>)),
      FileEntry(<<Str_r_md>>, Text(TRUE, <<>>, FALSE, <<>>, <<" ", "z">>)) }

InitServer ==
    /\ storageLocation = "server"
    /\ token = TRUE
    /\ needsLogin = FALSE
    /\ isServerLoadInitiated = FALSE
    /\ directoryHandle = FALSE
    /\ fileSystem = <<>>
    /\ localStorageNotes = initialFileSystem
    /\ serverDisk = InitialServerDisk
    /\ handleDisk = EmptyDisk
    /\ inflight = <<>>
    /\ toasts = <<>>
    /\ lastOp = Op("init", "ok", <<>>, <<>>)
    /\ steps = MaxServerSteps
    /\ verified = "none"
    /\ activeItem = <<>>
    /\ editor = NoEditor
    /\ isLoading = TRUE
    /\ sessions = NoSessions
    /\ input = <<>>
    /\ output = <<>>

NextServer ==
    \/ \E config \in Listings, relist \in Relists(serverDisk) :
          /\ config = "ok" \/ relist = OkRelist
          /\ initEffectServer(config, relist.listing, relist.failing)
    \/ loginServer
    \/ \E type \in ItemTypes, a \in ActiveIds, response \in Responses :
          addItemServer(type, a, response)
    \/ \E id \in allIds(fileSystem), n \in Names, response \in Responses :
          renameItemServer(id, n, response, "rename")
    \/ \E id \in allIds(fileSystem), c \in Contents, t \in TagLists,
          response \in Responses :
          \E n \in Names \cup {findItem(fileSystem, id).item.name} :
            updateNoteServer(id, c, n, t, response)
    \/ \E id \in allIds(fileSystem), response \in Responses :
          deleteItemServer(id, response)
    \/ \E id \in allIds(fileSystem), t \in allIds(fileSystem),
          response \in Responses, relist \in Relists(serverDisk) :
          moveItemServer(id, t, response, relist)
    \/ \E id \in allIds(fileSystem), t \in allIds(fileSystem) : moveItemRejected(id, t)
    \/ \E files \in ImportBatches, a \in ActiveIds, relist \in Relists(serverDisk) :
          \E lost \in 0..Len(files) : importFilesServer(files, a, lost, relist)
    \/ \E id \in allIds(fileSystem) : toggleFolderOpenSync(id)
    \/ \E id \in allIds(fileSystem) : toggleFolderOpenStart(id)
    \/ \E id \in allIds(fileSystem) : loadNoteContentStart(id)
    \/ \E k \in DOMAIN inflight, response \in Responses :
          loadNoteContentSettles(k, response)
    \/ \E k \in DOMAIN inflight, response \in Responses :
          \E i \in DOMAIN inflight[k].notes : fetchNoteContentSettles(k, i, response)

SpecServer == InitServer /\ [][NextServer]_vars

(***************************************************************************)
(* The two backends whose calls can fail, the user's operations on each.   *)
(***************************************************************************)
InitialHandleDisk ==
    { DirEntry(<<Str_F>>),
      FileEntry(<<Str_F, Str_A_md>>,
                Text(TRUE, noteId(<<"F", "/", "A", ".", "m", "d">>), TRUE, <<"t">>, <<"x">>)),
      FileEntry(<<Str_r_md>>, plainText(<<"y">>)) }

Faults == {"none", "walk", "write", "remove", "list"}

InitBackends ==
    /\ storageLocation \in {"server", "fileSystem"}
    /\ token = (storageLocation = "server")
    /\ needsLogin = FALSE
    /\ isServerLoadInitiated = FALSE
    /\ directoryHandle = FALSE
    /\ fileSystem = <<>>
    /\ localStorageNotes = initialFileSystem
    /\ serverDisk = InitialServerDisk
    /\ handleDisk = InitialHandleDisk
    /\ inflight = <<>>
    /\ toasts = <<>>
    /\ lastOp = Op("init", "ok", <<>>, <<>>)
    /\ steps = MaxBackendSteps
    /\ verified = "none"
    /\ activeItem = <<>>
    /\ editor = NoEditor
    /\ isLoading = TRUE
    /\ sessions = NoSessions
    /\ input = <<>>
    /\ output = <<>>

NextBackends ==
    \/ \E config \in Listings, relist \in Relists(serverDisk) :
          /\ config = "ok" \/ relist = OkRelist
          /\ initEffectServer(config, relist.listing, relist.failing)
    \/ loginServer
    \/ \E type \in ItemTypes, a \in ActiveIds, response \in Responses :
          addItemServer(type, a, response)
    \/ \E id \in allIds(fileSystem), n \in Names, response \in Responses :
          renameItemServer(id, n, response, "rename")
    \/ \E id \in allIds(fileSystem), c \in Contents, t \in TagLists,
          response \in Responses :
          \E n \in Names \cup {findItem(fileSystem, id).item.name} :
            updateNoteServer(id, c, n, t, response)
    \/ \E id \in allIds(fileSystem), response \in Responses :
          deleteItemServer(id, response)
    \/ \E id \in allIds(fileSystem), t \in allIds(fileSystem),
          response \in Responses, relist \in Relists(serverDisk) :
          moveItemServer(id, t, response, relist)
    \/ \E files \in ImportBatches, a \in ActiveIds, relist \in Relists(serverDisk) :
          \E lost \in 0..Len(files) : importFilesServer(files, a, lost, relist)
    \/ \E granted \in BOOLEAN : initEffectFS(granted)
    \/ \E granted \in BOOLEAN, fault \in Faults : pickDirectory(granted, fault)
    \/ \E type \in ItemTypes, a \in ActiveIds, fault \in Faults : addItemFS(type, a, fault)
    \/ \E id \in allIds(fileSystem), n \in Names, m \in MoveModes, fault \in Faults :
          renameItemFS(id, n, m, fault, "rename")
    \/ \E id \in allIds(fileSystem), c \in Contents, t \in TagLists, fault \in Faults :
          \E n \in Names \cup {findItem(fileSystem, id).item.name} :
            updateNoteFS(id, c, n, t, fault)
    \/ \E id \in allIds(fileSystem), fault \in Faults : deleteItemFS(id, fault)
    \/ \E id \in allIds(fileSystem), t \in allIds(fileSystem), fault \in Faults :
          moveItemFS(id, t, fault)
    \/ \E files \in ImportBatches, a \in ActiveIds, fault \in Faults :
          importFilesFS(files, a, fault)

SpecBackends == InitBackends /\ [][NextBackends]_vars

(***************************************************************************)
(* App and Editor over the Local Persisted Store: the user selects a note, *)
(* types in the name field and in the text area, and the Editor's timer    *)
(* saves what is dirty.                                                    *)
(***************************************************************************)
\* App.activeNote: the selected item, if it is a note of the tree
activeNoteOf(fs, id) ==
    IF id # <<>> /\ findItem(fs, id).item.type = "note" THEN findItem(fs, id).item
    ELSE Null

\* the Editor's effect on [note]: another note than the one before resets
\* the local state to the note, no note clears it (the notes of the local
\* store are loaded, so no content arrives later)
syncEditor(ed, note) ==
    IF note = Null THEN NoEditor
    ELSE IF ed.prevNoteId # note.id
    THEN Editor(note.id, note.name, note.content, note.tags)
    ELSE ed

\* Editor.isDirty
isDirty(ed, note) ==
    /\ note # Null
    /\ \/ ed.localName # note.name
       \/ ed.localContent # note.content
       \/ ed.localTags # note.tags

editorFrame ==
    UNCHANGED <<isLoading, sessions, storageLocation, verified, directoryHandle, token, needsLogin,
                isServerLoadInitiated, serverDisk, handleDisk, inflight>>

\* App.handleSelectItem for a note
handleSelectItem(id) ==
    /\ storageLocation = "localStorage"
    /\ Tick
    /\ findItem(fileSystem, id).item.type = "note"
    /\ activeItem' = id
    /\ editor' = syncEditor(editor, activeNoteOf(fileSystem, id))
    /\ toasts' = <<>>
    /\ lastOp' = Op("select", "ok", id, <<>>)
    /\ UNCHANGED <<fileSystem, localStorageNotes, input, output>>
    /\ editorFrame

\* the user types in the name field: setLocalName
typeName(name) ==
    /\ storageLocation = "localStorage"
    /\ Tick
    /\ activeNoteOf(fileSystem, activeItem) # Null
    /\ editor.localName # name
    /\ editor' = [editor EXCEPT !.localName = name]
    /\ toasts' = <<>>
    /\ lastOp' = Op("type", "name", activeItem, <<>>)
    /\ UNCHANGED <<fileSystem, localStorageNotes, input, output, activeItem>>
    /\ editorFrame

\* the user types in the text area: setLocalContent
typeContent(content) ==
    /\ storageLocation = "localStorage"
    /\ Tick
    /\ activeNoteOf(fileSystem, activeItem) # Null
    /\ editor.localContent # content
    /\ editor' = [editor EXCEPT !.localContent = content]
    /\ toasts' = <<>>
    /\ lastOp' = Op("type", "content", activeItem, <<>>)
    /\ UNCHANGED <<fileSystem, localStorageNotes, input, output, activeItem>>
    /\ editorFrame

\* the auto-save timer of the Editor fires: App.handleUpdateNote, updateNote
\* (local storage branch), setActiveItemId, and the renders that follow.
\* After a rename the tree is copied from the persisted tree one render
\* after the new id is selected, so the Editor sees no note in between.
autoSave ==
    LET note == activeNoteOf(fileSystem, activeItem)
        nameChanged == note.name # editor.localName
        contentChanged == note.content # editor.localContent
                             \/ note.tags # editor.localTags
        newId == renamedId(fileSystem, note.id, editor.localName)
        renamed == renameRecursive(localStorageNotes, <<>>, note.id, editor.localName)
        saved == updateItemRecursive(localStorageNotes,
                     [note EXCEPT !.content = editor.localContent,
                                  !.tags = editor.localTags,
                                  !.isContentLoaded = TRUE])
    IN  /\ storageLocation = "localStorage"
        /\ NoTick
        /\ isDirty(editor, note)
        /\ input' = <<note.id, editor.localContent, editor.localName, editor.localTags>>
        /\ IF nameChanged
           THEN /\ setLocalStorageNotes(renamed)
                /\ output' = newId
                /\ activeItem' = newId
                /\ editor' = syncEditor(syncEditor(editor, activeNoteOf(fileSystem, newId)),
                                        activeNoteOf(renamed, newId))
                /\ lastOp' = Op("autoSave",
                                IF contentChanged THEN "renamedOnly" ELSE "renamed",
                                note.id, newId)
           ELSE /\ setLocalStorageNotes(saved)
                /\ output' = <<>>
                /\ activeItem' = activeItem
                /\ editor' = syncEditor(editor, activeNoteOf(saved, activeItem))
                /\ lastOp' = Op("autoSave", "saved", note.id, <<>>)
        /\ toasts' = <<>>
        /\ editorFrame

InitEditor ==
    /\ storageLocation = "localStorage"
    /\ token = FALSE
    /\ needsLogin = FALSE
    /\ isServerLoadInitiated = FALSE
    /\ directoryHandle = FALSE
    /\ fileSystem = initialFileSystem
    /\ localStorageNotes = initialFileSystem
    /\ serverDisk = EmptyDisk
    /\ handleDisk = EmptyDisk
    /\ inflight = <<>>
    /\ toasts = <<>>
    /\ lastOp = Op("init", "ok", <<>>, <<>>)
    /\ steps = MaxEditorSteps
    /\ verified = "none"
    /\ input = <<>>
    /\ output = <<>>
    /\ activeItem = <<>>
    /\ editor = NoEditor
    /\ isLoading = FALSE
    /\ sessions = NoSessions

NextEditor ==
    \/ \E id \in allIds(fileSystem) : handleSelectItem(id)
    \/ \E name \in Names : typeName(name)
    \/ \E content \in Contents : typeContent(content)
    \/ autoSave

\* the timer fires 1.5 s after the last change, whatever else happens
SpecEditor == InitEditor /\ [][NextEditor]_vars /\ WF_vars(autoSave)

(***************************************************************************)
(* Functions applied on their own: the arguments are drawn, the function   *)
(* is applied, and what it returned is kept next to the arguments.         *)
(***************************************************************************)
\* nothing of the hook or of a backend takes part
hookUntouched ==
    UNCHANGED <<sessions, storageLocation, verified, token, needsLogin, isServerLoadInitiated,
                directoryHandle, localStorageNotes, serverDisk, handleDisk, inflight,
                toasts, activeItem, editor, isLoading>>

InitFunction ==
    /\ storageLocation = "localStorage"
    /\ token = FALSE
    /\ needsLogin = FALSE
    /\ isServerLoadInitiated = FALSE
    /\ directoryHandle = FALSE
    /\ localStorageNotes = <<>>
    /\ serverDisk = EmptyDisk
    /\ handleDisk = EmptyDisk
    /\ inflight = <<>>
    /\ toasts = <<>>
    /\ lastOp = Op("init", "ok", <<>>, <<>>)
    /\ verified = "none"
    /\ activeItem = <<>>
    /\ editor = NoEditor
    /\ isLoading = FALSE
    /\ sessions = NoSessions

\* trees to insert into: none, the first tree of the local store, and a tree
\* in which two folders have one id
TwinFolders ==
    << Folder(folderId(<<"A">>), <<"A">>, <<>>, FALSE, <<"A">>),
       Folder(folderId(<<"A">>), <<"A">>, <<>>, TRUE, <<"A">>) >>

SampleTrees == {<<>>, initialFileSystem, TwinFolders}

\* the ids of the folders of a tree
folderIds(items) ==
    {it.id : it \in {f \in seqToSet(flatten(items)) : f.type = "folder"}}

\* the items to insert below parentPath: notes and folders, with the id
\* derived from the path or with an id of their own
SampleItems(parentPath) ==
    LET p(t, n) == joinPath(parentPath, baseNameOf(t, n))
    IN  UNION {{Note(noteId(p("note", n)), n, <<>>, <<>>, p("note", n), TRUE),
                Note(<<"x">>, n, <<>>, <<>>, p("note", n), TRUE),
                Folder(folderId(p("folder", n)), n, <<>>, FALSE, p("folder", n)),
                Folder(<<"y">>, n, <<>>, FALSE, p("folder", n))} : n \in Names}

\* addItemToFolder (or the append at the root) followed by findItemAndParent
insertThenFind(parentId, item) ==
    LET targetParent == IF parentId = <<>> THEN Null
                        ELSE findItem(fileSystem, parentId).item
    IN  /\ Tick
        /\ item.id \notin allIds(fileSystem)
        /\ fileSystem' = insertNewItem(fileSystem, targetParent, item)
        /\ input' = <<parentId, item>>
        /\ output' = findItem(fileSystem', item.id)
        /\ lastOp' = Op("insert", "ok", parentId, item.id)
        /\ hookUntouched

\* findAndRemoveItem applied to the tree, with an id of the tree or with one
\* that no item has
removeThenCount(itemId) ==
    /\ Tick
    /\ input' = <<fileSystem, itemId>>
    /\ output' = findAndRemoveItem(fileSystem, itemId)
    /\ fileSystem' = findAndRemoveItem(fileSystem, itemId).newItems
    /\ lastOp' = Op("remove", "ok", itemId, <<>>)
    /\ hookUntouched

InitTree ==
    /\ InitFunction
    /\ fileSystem \in SampleTrees
    /\ input = <<>>
    /\ output = <<>>
    /\ steps = MaxTreeSteps

NextTree ==
    \/ \E item \in SampleItems(<<>>) : insertThenFind(<<>>, item)
    \/ \E parentId \in folderIds(fileSystem) :
          \E item \in SampleItems(findItem(fileSystem, parentId).item.path) :
             insertThenFind(parentId, item)
    \/ \E itemId \in allIds(fileSystem) \cup {<<"z">>} : removeThenCount(itemId)

SpecTree == InitTree /\ [][NextTree]_vars

\* tags to write: plain, with a comma, with a quote, with a backslash, with
\* white space around, with a line feed
SampleTags ==
    {<<"a">>, <<"a", ",", "b">>, <<"\"">>, <<"a", "\\">>, <<" ", "b", " ">>, <<"\n", "c">>}

RECURSIVE tagLists(_)
tagLists(n) ==
    IF n = 0 THEN {<<>>}
    ELSE tagLists(n - 1) \cup {Append(l, t) : l \in tagLists(n - 1), t \in SampleTags}

\* the data to write: none, an id, tags, both
SampleData ==
    {NoData, Data(TRUE, <<"1">>, FALSE, <<>>)}
    \cup {Data(hasId, IF hasId THEN <<"1">> ELSE <<>>, TRUE, tags) :
             hasId \in BOOLEAN, tags \in tagLists(MaxTags)}

\* the bodies to write: empty, plain, with white space around, with a block
\* of dashes of their own
SampleBodies ==
    {<<>>, <<"x">>, <<" ", "x">>, <<"x", "\n">>, <<"\n", "x", " ", "y", "\n", "\n">>,
     Dashes \o <<"\n">> \o <<"t", "a", "g", "s", ":", " ", "a", ",", "b">>
        \o <<"\n">> \o Dashes \o <<"\n", "x">>}

\* parseFrontMatter(stringifyFrontMatter(data, content))
roundTrip ==
    /\ Tick
    /\ output' = parseFrontMatterText(stringifyFrontMatterText(input[1], input[2]))
    /\ lastOp' = Op("roundTrip", "ok", <<>>, <<>>)
    /\ UNCHANGED <<fileSystem, input>>
    /\ hookUntouched

InitFrontMatter ==
    /\ InitFunction
    /\ fileSystem = <<>>
    /\ input \in SampleData \X SampleBodies
    /\ output = <<>>
    /\ steps = MaxFrontMatterSteps

NextFrontMatter == roundTrip

SpecFrontMatter == InitFrontMatter /\ [][NextFrontMatter]_vars

(***************************************************************************)
(* Properties.                                                             *)
(***************************************************************************)
\* C1: in every reachable in-memory tree no two items have the same id.
C1_NoDuplicateIds ==
    Cardinality(allIds(fileSystem)) = Len(flatten(fileSystem))

\* C2: in every reachable in-memory tree the id of every item is "note:" +
\* path for a Note and "folder:" + path for a Folder, the initial tree
\* included.
C2_IdsDerivedFromPath ==
    \A k \in DOMAIN flatten(fileSystem) :
        flatten(fileSystem)[k].id
            = derivedId(flatten(fileSystem)[k].type, flatten(fileSystem)[k].path)

\* folders before notes, and each group in the order of the names
isSorted(items) ==
    \A i, j \in DOMAIN items : i < j => sortFileSystemItems(items[i], items[j]) <= 0

RECURSIVE everyLevelSorted(_)
everyLevelSorted(items) ==
    /\ isSorted(items)
    /\ \A k \in DOMAIN items :
          items[k].type = "folder" => everyLevelSorted(items[k].children)

StructuralOps == {"add", "rename", "updateRename", "move", "import"}

\* C3: after every structural mutation (add, rename, move, bulk import) the
\* root level and the children of every Folder are in sorted order.
C3_SortedAfterMutation ==
    (lastOp.op \in StructuralOps /\ lastOp.outcome = "ok")
        => everyLevelSorted(fileSystem)

\* the subtree with the prefix oldPath of every path replaced by newPath
\* and every id derived again from the new path
RECURSIVE reprefixed(_, _, _)
reprefixed(item, oldPath, newPath) ==
    LET path == newPath \o SubSeq(item.path, Len(oldPath) + 1, Len(item.path))
    IN  IF item.type = "folder"
        THEN [item EXCEPT !.path = path, !.id = derivedId(item.type, path),
                          !.children = [k \in DOMAIN @ |->
                                           reprefixed(@[k], oldPath, newPath)]]
        ELSE [item EXCEPT !.path = path, !.id = derivedId(item.type, path)]

\* the paths below a folder extend the path of the folder
pathsExtend(folder) ==
    /\ folder.path # <<>>
    /\ \A k \in DOMAIN flatten(folder.children) :
          startsWith(flatten(folder.children)[k].path, folder.path \o Slash)

\* a step that committed the rename of the folder with the id lastOp'.id
folderRenameCommitted ==
    /\ lastOp'.op = "rename"
    /\ lastOp'.outcome = "ok"
    /\ findItem(fileSystem, lastOp'.id).item.type = "folder"
    /\ pathsExtend(findItem(fileSystem, lastOp'.id).item)
    /\ C1_NoDuplicateIds

\* C4: a committed rename of a Folder with N descendants rewrites the path
\* and the id of exactly those N+1 items (old prefix replaced by the new
\* path, id derived again) and changes nothing else but the folder's name.
C4_FolderRenameRewritesSubtree ==
    [][folderRenameCommitted =>
          LET old == findItem(fileSystem, lastOp'.id).item
              new == findItem(fileSystem', lastOp'.ret).item
          IN  /\ new # Null
              /\ [new EXCEPT !.name = old.name]
                     = reprefixed(old, old.path, new.path)
              /\ deleteItemRecursive(fileSystem', new.id)
                     = deleteItemRecursive(fileSystem, old.id)]_vars

\* the target of the move lastOp' is the moved folder or lies below it
moveIntoOwnSubtree ==
    LET source == findItem(fileSystem, lastOp'.id).item
    IN  /\ lastOp'.op = "move"
        /\ source.type = "folder"
        /\ findItem(fileSystem, lastOp'.ret).item.type = "folder"
        /\ \/ lastOp'.ret = lastOp'.id
           \/ containsId(source.children, lastOp'.ret)

\* C6: moveItem of a Folder into itself or into one of its descendants
\* changes neither the in-memory tree nor any backend.
C6_MoveIntoDescendantRejected ==
    [][moveIntoOwnSubtree =>
          UNCHANGED <<fileSystem, localStorageNotes, serverDisk, handleDisk>>]_vars

\* some backend was written by the step
backendWritten ==
    \/ serverDisk' # serverDisk
    \/ handleDisk' # handleDisk
    \/ localStorageNotes' # localStorageNotes

\* C7: updateNote never writes a Note to the backend while the Note's
\* isContentLoaded is false.
C7_NoWriteOfUnloadedNote ==
    [][(lastOp'.op = "update" /\ backendWritten)
          => findItem(fileSystem, lastOp'.id).item.isContentLoaded]_vars

\* the expansion that the latest step completed, and its folder in the tree
appliedBatch == lastOp.ret
appliedFolder == findItem(fileSystem, appliedBatch.folder.id).item

\* the number of the fetch issued for the c-th child of the snapshot
fetchIndex(children, c) == Len(notesToLoadOf(SubSeq(children, 1, c)))

isUnloadedNote(item) == item.type = "note" /\ ~item.isContentLoaded

\* C8: when an expansion has fetched the bodies of the unloaded children of
\* a folder, a child whose fetch failed is still unloaded with its content
\* unchanged and has raised exactly one error notification, and a child
\* whose fetch succeeded holds the fetched content and tags and is loaded.
C8_PartialFailurePerChild ==
    (lastOp.op = "batchApplied" /\ appliedFolder # Null) =>
        /\ Len(appliedBatch.errors)
              = Cardinality({i \in DOMAIN appliedBatch.results :
                                ~appliedBatch.results[i].isContentLoaded})
        /\ \A c \in DOMAIN appliedBatch.folder.children :
              isUnloadedNote(appliedBatch.folder.children[c]) =>
                  /\ c \in DOMAIN appliedFolder.children
                  /\ appliedFolder.children[c]
                        = appliedBatch.results[
                              fetchIndex(appliedBatch.folder.children, c)]

\* the notes a settled load was issued for that are no longer in the tree
goneNotes(load) ==
    {load.notes[i].id : i \in DOMAIN load.notes} \ allIds(fileSystem)

\* C9: a lazy-load result whose Note is no longer in the tree when the
\* fetch resolves is discarded: a single load leaves the tree as it was,
\* and an expansion does not put the Note back.
C9_ResultForDeletedNoteDiscarded ==
    [][/\ (lastOp'.op = "loadSettled" /\ goneNotes(lastOp'.ret) # {})
            => fileSystem' = fileSystem
       /\ lastOp'.op = "batchApplied"
            => goneNotes(lastOp'.ret) \cap allIds(fileSystem') = {}]_vars

\* C10: the tree an expansion leaves is fixed by the results of its fetches,
\* whatever the order they arrived in: every child a fetch was issued for
\* holds the result of that fetch, and every other child is as it was.
C10_EachResultToItsOwnNote ==
    (lastOp.op = "batchApplied" /\ appliedFolder # Null) =>
        appliedFolder.children
            = [c \in DOMAIN appliedBatch.folder.children |->
                  IF isUnloadedNote(appliedBatch.folder.children[c])
                  THEN appliedBatch.results[fetchIndex(appliedBatch.folder.children, c)]
                  ELSE appliedBatch.folder.children[c]]

\* the six operations of the hook that call a backend
BackendOps == {"add", "rename", "updateRename", "update", "delete", "move", "import"}

\* some call of the operation failed: the request of the change, a call on a
\* handle, the listing or a body fetch of the re-list that follows the change
AnyCallFailed ==
    {"failed", "threw", "listFailed", "relistFailed", "relistUnauthorized",
     "fetchFailed", "fallback"}

\* the call that carries out the change failed, or the re-read of the tree
\* after it failed with anything but a 401
ChangeOrRereadFailed == {"failed", "threw", "listFailed", "relistFailed"}

\* C5 (as stated): whenever a backend call of an operation fails, on any
\* backend, the in-memory tree after the operation is the tree before it.
C5_AnyFailureLeavesTree ==
    [][(lastOp'.op \in BackendOps /\ lastOp'.outcome \in AnyCallFailed)
          => fileSystem' = fileSystem]_vars

\* C5 (amended): when the call that carries out the change fails, or the
\* re-read of the tree after it fails with anything but a 401, the operation
\* is aborted and the in-memory tree after it is the tree before it.
C5_FailedChangeLeavesTree ==
    [][(lastOp'.op \in BackendOps /\ lastOp'.outcome \in ChangeOrRereadFailed)
          => fileSystem' = fileSystem]_vars

\* a rename on the server was refused and a non-empty tree is on display
C5_Witness ==
    /\ lastOp.op = "rename"
    /\ lastOp.outcome = "failed"
    /\ storageLocation = "server"
    /\ fileSystem # <<>>

\* the tree without the item that a lookup of itemId finds, and without
\* what lies below that item
RECURSIVE withoutFound(_, _)
withoutFound(items, itemId) ==
    IF items = <<>> THEN <<>>
    ELSE IF Head(items).id = itemId THEN Tail(items)
    ELSE IF Head(items).type = "folder" /\ itemId \in allIds(Head(items).children)
         THEN <<[Head(items) EXCEPT !.children = withoutFound(@, itemId)]>>
                  \o Tail(items)
    ELSE <<Head(items)>> \o withoutFound(Tail(items), itemId)

\* after the step the backend in use still stores the item or something
\* below it
stillStored(item) ==
    IF storageLocation = "server"
    THEN \E e \in serverDisk' : startsWith(e.path, pathParts(stripUser(item.path)))
    ELSE IF storageLocation = "fileSystem"
    THEN \E e \in handleDisk' : startsWith(e.path, pathParts(item.path))
    ELSE allIds(localStorageNotes') \cap allIds(<<item>>) # {}

\* C11: after a committed delete of item X neither X nor a descendant of X
\* is found in the in-memory tree, the backend stores none of them, and
\* every item outside the subtree of X is as it was.
C11_DeleteRemovesSubtreeOnly ==
    [][(lastOp'.op = "delete" /\ lastOp'.outcome = "ok" /\ steps' # steps) =>
          LET X == findItem(fileSystem, lastOp'.id).item
          IN  /\ allIds(fileSystem') \cap allIds(<<X>>) = {}
              /\ ~stillStored(X)
              /\ fileSystem' = withoutFound(fileSystem, X.id)]_vars

\* C12: looking up X.id in the tree obtained by inserting X into the
\* folder P (or at the root) returns X itself, with parent P (no parent
\* for an insertion at the root).
C12_FindAfterInsert ==
    lastOp.op = "insert" =>
        /\ output.item = input[2]
        /\ IF input[1] = <<>> THEN output.parent = Null
           ELSE output.parent.type = "folder" /\ output.parent.id = input[1]

\* an item was inserted into a folder below the root and found there
C12_Witness ==
    /\ lastOp.op = "insert"
    /\ input[1] # <<>>
    /\ output.item = input[2]
    /\ output.parent.id = input[1]
    /\ \E k \in DOMAIN fileSystem :
          fileSystem[k].type = "folder" /\ input[1] \in allIds(fileSystem[k].children)


\* C13: for every metadata map, the empty one included, and every body, the
\* content parsed back from the document written is the trimmed body.
C13_ContentIsTrimmedBody ==
    lastOp.op = "roundTrip" => output.content = trim(input[2])

\* C14: the tags parsed back from a document written with tags are the same
\* set of strings as the tags written.
C14_TagsSurvive ==
    (lastOp.op = "roundTrip" /\ input[1].hasTags)
        => /\ output.data.hasTags
           /\ seqToSet(output.data.tags) = seqToSet(input[1].tags)

C14_Witness ==
    /\ lastOp.op = "roundTrip"
    /\ input[1].hasTags
    /\ input[1].tags = << <<"a", ",", "b">>, <<"\"">> >>
    /\ output.data.tags = input[1].tags


\* C15: renameItem with a blank new name makes no backend call, leaves the
\* tree as it is and returns null (with the current name no step is taken).
C15_BlankRenameIsNoOp ==
    [][(\E id \in allIds(fileSystem), n \in BlankNames : renameItemLocal(id, n, "rename"))
          => /\ UNCHANGED <<fileSystem, localStorageNotes>>
             /\ lastOp'.ret = Null]_vars


\* the ids of the items directly in a level
levelIds(items) == {items[k].id : k \in DOMAIN items}

\* the level of newTree under parent (the root for Null) is the level of
\* oldTree under it and one more item, with newId in it
placedUnder(oldTree, newTree, parent, newId) ==
    LET before == IF parent.type = "null" THEN oldTree
                  ELSE findItem(oldTree, parent.id).item.children
        after == IF parent.type = "null" THEN newTree
                 ELSE findItem(newTree, parent.id).item.children
    IN  /\ parent.type \in {"null", "folder"}
        /\ Len(after) = Len(before) + 1
        /\ newId \in levelIds(after)

\* C16: addItem places the new item at the root when no item is active, in
\* the active folder, or in the parent of the active note (the root when it
\* has none); never in a note.
C16_AddItemPlacement ==
    [][(lastOp'.op = "add" /\ lastOp'.outcome = "ok" /\ steps' # steps)
          => LET active == findItem(fileSystem, lastOp'.id)
             IN  IF lastOp'.id = <<>>
                 THEN placedUnder(fileSystem, fileSystem', Null, lastOp'.ret)
                 ELSE IF active.item.type = "folder"
                 THEN placedUnder(fileSystem, fileSystem', active.item, lastOp'.ret)
                 ELSE placedUnder(fileSystem, fileSystem', active.parent, lastOp'.ret)]_vars

C16_Witness ==
    /\ lastOp.op = "add"
    /\ lastOp.outcome = "ok"
    /\ lastOp.id # <<>>
    /\ findItem(fileSystem, lastOp.id).item.type = "note"
    /\ findItem(fileSystem, lastOp.id).parent.type = "folder"
    /\ lastOp.ret \in levelIds(findItem(fileSystem, lastOp.id).parent.children)
    /\ lastOp.ret \notin levelIds(fileSystem)


changeUnauthorized ==
    /\ storageLocation = "server"
    /\ token
    /\ \/ \E type \in ItemTypes, a \in ActiveIds : addItemServer(type, a, "unauthorized")
       \/ \E id \in allIds(fileSystem), n \in Names :
             renameItemServer(id, n, "unauthorized", "rename")
       \/ \E id \in allIds(fileSystem) : deleteItemServer(id, "unauthorized")
       \/ \E id \in allIds(fileSystem), t \in allIds(fileSystem) :
             moveItemServer(id, t, "unauthorized", OkRelist)

\* C18: whenever a call of the remote backend fails with 401, in whatever
\* operation, the token is cleared and the login is asked for.
C18_UnauthorizedClearsToken ==
    [][(\/ changeUnauthorized
        \/ lastOp'.outcome \in {"relistUnauthorized", "configUnauthorized"})
          => (~token' /\ needsLogin')]_vars


\* the outcomes of an operation that did not go through
FailedOutcomes == {"failed", "threw", "skipped", "listFailed"}

\* C19: every operation that does not commit because of a failure raises at
\* least one notification.
C19_FailureRaisesNotification ==
    [][(lastOp'.op \in BackendOps /\ steps' # steps /\ lastOp'.outcome \in FailedOutcomes)
          => toasts' # <<>>]_vars


\* C20: on the native handle backend an operation goes through the handle
\* only after a permission check of the mode it needs succeeded (to read and
\* write, for the changing operations), and a listing only after a check to
\* read; after a denied check nothing is listed and the picker is asked for.
C20_PermissionBeforeHandle ==
    [][(storageLocation = "fileSystem" /\ steps' # steps /\ lastOp'.op \in BackendOps)
          => verified = "readwrite"]_vars

\* the paths of the documents in the archives among the files, below parentPath
archiveNotePaths(files, parentPath) ==
    {joinPath(parentPath, e.path) :
        e \in {x \in seqToSet(flattenEntries(files)) : ~x.dir /\ endsWith(x.path, MdExt)}}

\* the paths of the notes of a tree
notePathsOf(items) == {n.path : n \in {i \in seqToSet(flatten(items)) : i.type = "note"}}

\* importFiles of the files with the active item a goes through on a backend
importCommitted(files, a) ==
    /\ \/ importFilesLocal(files, a)
       \/ importFilesFS(files, a, "none")
       \/ importFilesServer(files, a, 0, OkRelist)
    /\ lastOp'.outcome = "ok"

\* C21: an import of an archive into the target T makes, for every .md entry
\* at d1/.../dk/f.md, a note at the path T/d1/.../dk/f.md.
C21_ArchiveEntriesUnderTarget ==
    [][\A files \in ImportBatches, a \in ActiveIds :
          importCommitted(files, a)
             => archiveNotePaths(files, pathOrEmpty(importTargetOf(fileSystem, a)))
                   \subseteq notePathsOf(fileSystem')]_vars

\* C22: an import of an archive makes no note of an entry whose file name is
\* the index file of a folder export, on any backend.
C22_IndexFileNotImported ==
    [][\A files \in ImportBatches, a \in ActiveIds :
          importCommitted(files, a)
             => /\ \A p \in notePathsOf(fileSystem') : ~endsWith(p, Str_toc)
                /\ \A e \in serverDisk' \cup handleDisk' : last(e.path) # Str_toc]_vars

\* the notes of a tree
notesOf(items) == {i \in seqToSet(flatten(items)) : i.type = "note"}

\* C23: while the local store is the backend, every note of the in-memory
\* tree and of the persisted tree has isContentLoaded = TRUE.
C23_LocalNotesLoaded ==
    storageLocation = "localStorage"
        => \A n \in notesOf(fileSystem) \cup notesOf(localStorageNotes) : n.isContentLoaded

C23_Witness ==
    /\ storageLocation = "localStorage"
    /\ lastOp.op = "import"
    /\ \E n \in notesOf(localStorageNotes) : n.name = Str_NewNote /\ n.isContentLoaded
    /\ \E n \in notesOf(fileSystem) : n.name = <<"b">> /\ n.isContentLoaded

\* what of the items of a tree no result of an expansion may change
skeleton(items) ==
    {<<i.type, i.id, i.name, i.path>> : i \in seqToSet(flatten(items))}

\* the ids of the notes whose fetch of the batch succeeded
loadedIds(batch) ==
    {batch.results[i].id : i \in {j \in DOMAIN batch.results :
                                     batch.results[j].isContentLoaded}}

\* C24: when the result of an expansion is applied, only the content, the
\* tags and isContentLoaded of the children whose fetch succeeded change,
\* and isOpen / isLoadingContents of the folder; every other item, also one
\* changed while the fetches were in flight, stays as it was.
C24_BatchChangesOnlyFetched ==
    [][lastOp'.op = "batchApplied"
          => /\ skeleton(fileSystem') = skeleton(fileSystem)
             /\ \A n \in notesOf(fileSystem) :
                   n.id \notin loadedIds(lastOp'.ret) => n \in notesOf(fileSystem')]_vars

\* type, name, path, id and parent of every item of a tree
RECURSIVE shapeOf(_, _)
shapeOf(items, parentId) ==
    UNION {{<<items[k].type, items[k].name, items[k].path, items[k].id, parentId>>}
              \cup (IF items[k].type = "folder"
                    THEN shapeOf(items[k].children, items[k].id) ELSE {}) :
           k \in DOMAIN items}

\* C25: after every committed add, rename or delete on the remote backend
\* the in-memory tree holds exactly the items (type, name, path, id, parent)
\* that a fresh listing of the server tree returns.
C25_OptimisticEqualsListing ==
    [][(/\ storageLocation = "server"
        /\ lastOp'.op \in {"add", "rename", "delete"}
        /\ lastOp'.outcome = "ok"
        /\ steps' # steps)
          => shapeOf(fileSystem', <<>>) = shapeOf(fetchFileSystem(serverDisk'), <<>>)]_vars

\* the edit handed to the latest updateNote is in the stored note
editSaved ==
    /\ Len(input) = 4
    /\ \E n \in notesOf(localStorageNotes) :
          n.id = output /\ n.content = input[2] /\ n.tags = input[4]

\* C26: when updateNote is called with a changed name and a changed content
\* it only renames, and the content is saved later, once the renamed note is
\* the Editor's note again (or the user types something else): the edit is
\* not lost.
C26_EditSurvivesRename ==
    (lastOp.outcome = "renamedOnly") ~> (editSaved \/ lastOp.op = "type")


\* C27: on the native backend, after a move that reports success every entry
\* of the moved item (the file, or the directory with everything below it)
\* exists under the destination with the text it had, whatever accepted
\* pair of source and target was given, the current parent included
movedEntries(disk, itemId, targetFolderId) ==
    copiesOf(disk, pathParts(findItem(fileSystem, itemId).item.path),
             pathParts(findItem(fileSystem, targetFolderId).item.path))

C27_MoveKeepsData ==
    [][\A itemId \in ActiveIds, targetFolderId \in ActiveIds :
          (moveItemFS(itemId, targetFolderId, "none") /\ lastOp'.outcome = "ok")
          => movedEntries(handleDisk, itemId, targetFolderId) \subseteq handleDisk']_vars


\* ---------------------------------------------------------------------
\* addItem where the default name is taken: each backend holds a note
\* "New Note" with content and tags, at the top level and in the folder F
\* ---------------------------------------------------------------------
NewNoteMd == Str_NewNote \o MdExt

TakenDisk ==
    { DirEntry(<<Str_F>>),
      DirEntry(<<Str_NewFolder>>),
      FileEntry(<<NewNoteMd>>,
                stringifyFrontMatter(noteId(NewNoteMd), <<"t">>, <<"x">>)),
      FileEntry(<<Str_F, NewNoteMd>>,
                stringifyFrontMatter(noteId(joinPath(Str_F, NewNoteMd)), <<"t">>, <<"x">>)) }

InitAddItem ==
    /\ storageLocation \in {"localStorage", "fileSystem", "server"}
    /\ token = (storageLocation = "server")
    /\ needsLogin = FALSE
    /\ isServerLoadInitiated = (storageLocation = "server")
    /\ directoryHandle = (storageLocation = "fileSystem")
    /\ verified = IF storageLocation = "fileSystem" THEN "readwrite" ELSE "none"
    /\ localStorageNotes = IF storageLocation = "localStorage"
                           THEN readDirectory(TakenDisk, <<>>, <<>>)
                           ELSE initialFileSystem
    /\ serverDisk = IF storageLocation = "server" THEN TakenDisk ELSE EmptyDisk
    /\ handleDisk = IF storageLocation = "fileSystem" THEN TakenDisk ELSE EmptyDisk
    /\ fileSystem = IF storageLocation = "server" THEN fetchFileSystem(TakenDisk)
                    ELSE readDirectory(TakenDisk, <<>>, <<>>)
    /\ inflight = <<>>
    /\ toasts = <<>>
    /\ lastOp = Op("init", "ok", <<>>, <<>>)
    /\ steps = MaxAddSteps
    /\ activeItem = <<>>
    /\ editor = NoEditor
    /\ isLoading = FALSE
    /\ sessions = NoSessions
    /\ input = <<>>
    /\ output = <<>>

NextAddItem ==
    \/ \E type \in ItemTypes, a \in ActiveIds : addItemLocal(type, a)
    \/ \E type \in ItemTypes, a \in ActiveIds, response \in Responses :
          addItemServer(type, a, response)
    \/ \E type \in ItemTypes, a \in ActiveIds, fault \in Faults : addItemFS(type, a, fault)

SpecAddItem == InitAddItem /\ [][NextAddItem]_vars

\* C28: addItem never changes an existing item: every note named
\* "New Note" and every folder named "New Folder" that the tree holds is in
\* the tree after addItem with the same content and tags, and every file
\* "New Note.md" of a backend keeps its text
namedNew(items) ==
    {n \in notesOf(items) : n.name = Str_NewNote}

filesNamedNew(disk) == {e \in disk : ~e.dir /\ last(e.path) = NewNoteMd}

C28_AddItemKeepsExisting ==
    [][lastOp'.op = "add"
       => /\ \A n \in namedNew(fileSystem) :
               \E k \in notesOf(fileSystem') :
                  k.id = n.id /\ k.content = n.content /\ k.tags = n.tags
          /\ namedNew(localStorageNotes) \subseteq namedNew(localStorageNotes')
          /\ filesNamedNew(serverDisk) \subseteq serverDisk'
          /\ filesNamedNew(handleDisk) \subseteq handleDisk']_vars


\* C29: whenever renameItem, called on its own or by updateNote, returns an
\* id, the tree that results holds an item with exactly that id, and it is
\* the renamed item: its path is the one the id was made of
C29_ReturnedIdInTree ==
    [][(/\ lastOp'.op \in {"rename", "updateRename"}
        /\ lastOp'.outcome = "ok"
        /\ steps' # steps)
       => \E k \in DOMAIN flatten(fileSystem') :
             LET it == flatten(fileSystem')[k]
             IN  it.id = lastOp'.ret /\ derivedId(it.type, it.path) = lastOp'.ret]_vars


\* ---------------------------------------------------------------------
\* moveItem between folders whose names begin alike: each backend holds the
\* folders A and AB side by side, and a folder F with a folder of its own
\* ---------------------------------------------------------------------
Str_A == <<"A">>
Str_AB == <<"A", "B">>

SiblingDisk ==
    { DirEntry(<<Str_A>>),
      DirEntry(<<Str_AB>>),
      DirEntry(<<Str_F>>),
      DirEntry(<<Str_F, Str_A>>),
      FileEntry(<<Str_A, Str_r_md>>, plainText(<<"y">>)) }

InitMove ==
    /\ storageLocation \in {"localStorage", "fileSystem", "server"}
    /\ token = (storageLocation = "server")
    /\ needsLogin = FALSE
    /\ isServerLoadInitiated = (storageLocation = "server")
    /\ directoryHandle = (storageLocation = "fileSystem")
    /\ verified = IF storageLocation = "fileSystem" THEN "readwrite" ELSE "none"
    /\ localStorageNotes = IF storageLocation = "localStorage"
                           THEN readDirectory(SiblingDisk, <<>>, <<>>)
                           ELSE initialFileSystem
    /\ serverDisk = IF storageLocation = "server" THEN SiblingDisk ELSE EmptyDisk
    /\ handleDisk = IF storageLocation = "fileSystem" THEN SiblingDisk ELSE EmptyDisk
    /\ fileSystem = IF storageLocation = "server" THEN fetchFileSystem(SiblingDisk)
                    ELSE readDirectory(SiblingDisk, <<>>, <<>>)
    /\ inflight = <<>>
    /\ toasts = <<>>
    /\ lastOp = Op("init", "ok", <<>>, <<>>)
    /\ steps = MaxMoveSteps
    /\ activeItem = <<>>
    /\ editor = NoEditor
    /\ isLoading = FALSE
    /\ sessions = NoSessions
    /\ input = <<>>
    /\ output = <<>>

NextMove ==
    \/ \E id \in allIds(fileSystem), t \in allIds(fileSystem) : moveItemRejected(id, t)
    \/ \E id \in allIds(fileSystem), t \in allIds(fileSystem) : moveItemLocal(id, t)
    \/ \E id \in allIds(fileSystem), t \in allIds(fileSystem), fault \in Faults :
          moveItemFS(id, t, fault)
    \/ \E id \in allIds(fileSystem), t \in allIds(fileSystem),
          response \in Responses, relist \in Relists(serverDisk) :
          moveItemServer(id, t, response, relist)

SpecMove == InitMove /\ [][NextMove]_vars

\* the /move route refuses the folder as one moved into itself
routeMoveRefuses(itemId, targetFolderId) ==
    LET sourceItem == findItem(fileSystem, itemId).item
        targetFolder == findItem(fileSystem, targetFolderId).item
        fullSrc == safePath(stripUser(sourceItem.path))
        fullDst == safePath(stripUser(joinPath(targetFolder.path, sourceNameOf(itemId))))
    IN  /\ moveItemServer(itemId, targetFolderId, "ok", OkRelist)
        /\ isDirectory(serverDisk, fullSrc)
        /\ startsWith(join(fullDst), join(fullSrc))

\* C30: a move of the folder S into the folder T is rejected, by the check
\* of the hook or by the check of the /move route, only when T is S or lies
\* in the subtree of S
C30_RejectedOnlyIntoOwnSubtree ==
    [][\A itemId \in allIds(fileSystem), targetFolderId \in allIds(fileSystem) :
          (moveItemRejected(itemId, targetFolderId)
           \/ routeMoveRefuses(itemId, targetFolderId))
          => targetFolderId \in allIds(<<findItem(fileSystem, itemId).item>>)]_vars


\* C31: in every tree the hook holds, on every backend, the path of each
\* item is the path of its parent folder joined by "/" with its own base
\* name, and the path of an item of the top level is its base name
RECURSIVE pathsJoined(_, _)
pathsJoined(items, parentPath) ==
    \A k \in DOMAIN items :
        /\ items[k].path = joinPath(parentPath, baseNameOf(items[k].type, items[k].name))
        /\ items[k].type = "folder" => pathsJoined(items[k].children, items[k].path)

C31_PathIsJoinedNames == pathsJoined(fileSystem, <<>>)


(***************************************************************************)
(* Switching the backend.  The settings change and the init effect runs    *)
(* for the new backend; on the server it awaits loadConfig and the refresh, *)
(* which stay in flight while the user goes on.                            *)
(***************************************************************************)
StorageLocations == {"localStorage", "fileSystem", "server"}

\* setSettings with another storageLocation, and the init effect up to its
\* first await on the server, to its end on the other backends
switchStorage(location, granted) ==
    /\ Tick
    /\ location \in StorageLocations
    /\ location # storageLocation
    /\ storageLocation' = location
    /\ needsLogin' = (location = "server" /\ ~token)
    /\ directoryHandle' = (location = "fileSystem" /\ granted)
    /\ verified' = IF location = "fileSystem" /\ granted THEN "read" ELSE "none"
    /\ isServerLoadInitiated' = (location = "server" /\ token)
    /\ location = "server" /\ token /\ ~isServerLoadInitiated
          => Len(inflight) < MaxInflight
    /\ inflight' = IF location = "server" /\ token /\ ~isServerLoadInitiated
                   THEN Append(inflight, Load("refresh", Null, <<>>, <<>>, <<>>))
                   ELSE inflight
    /\ fileSystem' = IF location = "localStorage" THEN localStorageNotes
                     ELSE IF location = "fileSystem"
                     THEN (IF granted THEN readDirectory(handleDisk, <<>>, <<>>) ELSE <<>>)
                     ELSE IF ~token THEN <<>>
                     ELSE fileSystem
    /\ toasts' = <<>>
    /\ lastOp' = Op("switch", "ok", <<>>, <<>>)
    /\ UNCHANGED <<token, input, output, activeItem, editor, sessions,
                   localStorageNotes, serverDisk, handleDisk>>
    /\ isLoading' = IF location # "server" \/ ~token THEN FALSE
                    ELSE IF ~isServerLoadInitiated THEN TRUE
                    ELSE isLoading

\* loadConfig and the refresh of the init effect come back.  A 401 clears
\* the token, which runs the init effect again: that case is followed on
\* the server backend only.
refreshSettles(k, config, listing, failing) ==
    LET r == refreshServerNotes(serverDisk, listing, failing)
    IN  /\ NoTick
        /\ inflight[k].kind = "refresh"
        /\ storageLocation # "server" => config # "unauthorized" /\ listing # "unauthorized"
        /\ inflight' = removeAt(inflight, k)
        /\ IF config = "ok"
           THEN /\ refreshApplied([r EXCEPT !.initiated =
                                      IF listing = "unauthorized" THEN FALSE
                                      ELSE isServerLoadInitiated])
                /\ toasts' = r.toasts
                /\ lastOp' = Op("refreshSettled", r.outcome, <<>>, <<>>)
           ELSE IF config = "unauthorized"
           THEN /\ fileSystem' = <<>>
                /\ token' = FALSE
                /\ needsLogin' = TRUE
                /\ isServerLoadInitiated' = FALSE
                /\ toasts' = <<>>
                /\ lastOp' = Op("refreshSettled", "configUnauthorized", <<>>, <<>>)
           ELSE /\ toasts' = <<>>
                /\ lastOp' = Op("refreshSettled", "configFailed", <<>>, <<>>)
                /\ UNCHANGED <<fileSystem, token, needsLogin, isServerLoadInitiated>>
        /\ UNCHANGED <<sessions, storageLocation, verified, input, output, activeItem, editor,
                       directoryHandle, localStorageNotes, serverDisk, handleDisk>>
        /\ isLoading' = FALSE

InitSwitch ==
    /\ storageLocation \in {"localStorage", "server"}
    /\ token = TRUE
    /\ needsLogin = FALSE
    /\ isServerLoadInitiated = (storageLocation = "server")
    /\ directoryHandle = FALSE
    /\ verified = "none"
    /\ localStorageNotes = initialFileSystem
    /\ serverDisk = InitialServerDisk
    /\ handleDisk = InitialHandleDisk
    /\ fileSystem = IF storageLocation = "server"
                    THEN refreshedTree(InitialServerDisk, {})
                    ELSE initialFileSystem
    /\ inflight = <<>>
    /\ toasts = <<>>
    /\ lastOp = Op("init", "ok", <<>>, <<>>)
    /\ steps = MaxSwitchSteps
    /\ activeItem = <<>>
    /\ editor = NoEditor
    /\ isLoading = FALSE
    /\ sessions = NoSessions
    /\ input = <<>>
    /\ output = <<>>

NextSwitch ==
    \/ \E location \in StorageLocations, granted \in BOOLEAN :
          switchStorage(location, granted)
    \/ \E k \in DOMAIN inflight, config \in Listings, relist \in Relists(serverDisk) :
          /\ config = "ok" \/ relist = OkRelist
          /\ refreshSettles(k, config, relist.listing, relist.failing)
    \/ \E id \in allIds(fileSystem) : toggleFolderOpenStart(id)
    \/ \E id \in allIds(fileSystem) : loadNoteContentStart(id)
    \/ \E k \in DOMAIN inflight, response \in Responses :
          loadNoteContentSettles(k, response)
    \/ \E k \in DOMAIN inflight, response \in Responses :
          \E i \in DOMAIN inflight[k].notes : fetchNoteContentSettles(k, i, response)

SpecSwitch == InitSwitch /\ [][NextSwitch]_vars

\* C32: a switch of the backend leaves what every backend stores as it is,
\* and the completion of a refresh, a lazy load or a folder expansion that
\* was started on the server does not write into the tree once another
\* backend is the active one
SettledOps == {"refreshSettled", "loadSettled", "fetchSettled", "batchApplied"}

C32_SwitchIsolatesBackends ==
    [][/\ storageLocation' # storageLocation
          => UNCHANGED <<localStorageNotes, serverDisk, handleDisk>>
       /\ (/\ storageLocation' = storageLocation
           /\ storageLocation # "server"
           /\ inflight' # inflight
           /\ lastOp'.op \in SettledOps)
          => fileSystem' = fileSystem]_vars


\* the fetches of a lazy load and of a folder expansion come back sooner or
\* later: the requests are sent and the browser settles every one of them
lazyLoadSettles ==
    \E k \in DOMAIN inflight, response \in Responses : loadNoteContentSettles(k, response)

batchFetchSettles ==
    \E k \in DOMAIN inflight, response \in Responses :
       \E i \in DOMAIN inflight[k].notes : fetchNoteContentSettles(k, i, response)

fetchesSettle == lazyLoadSettles \/ batchFetchSettles

\* a fetch of an expansion is pending, which is when batchFetchSettles can
\* take a step
batchInFlight ==
    \E k \in DOMAIN inflight :
       inflight[k].kind = "batch" /\ \E i \in DOMAIN inflight[k].results :
                                        inflight[k].results[i] = Null

\* the server backend after its first listing, and the operations that can
\* meet a folder expansion in flight
InitExpand ==
    /\ storageLocation = "server"
    /\ token = TRUE
    /\ needsLogin = FALSE
    /\ isServerLoadInitiated = TRUE
    /\ directoryHandle = FALSE
    /\ verified = "none"
    /\ localStorageNotes = initialFileSystem
    /\ serverDisk = InitialServerDisk
    /\ handleDisk = EmptyDisk
    /\ fileSystem = refreshedTree(InitialServerDisk, {})
    /\ inflight = <<>>
    /\ toasts = <<>>
    /\ lastOp = Op("init", "ok", <<>>, <<>>)
    /\ steps = MaxExpandSteps
    /\ activeItem = <<>>
    /\ editor = NoEditor
    /\ isLoading = FALSE
    /\ sessions = NoSessions
    /\ input = <<>>
    /\ output = <<>>

NextExpand ==
    \/ \E id \in allIds(fileSystem) : toggleFolderOpenStart(id)
    \/ \E id \in allIds(fileSystem) : toggleFolderOpenSync(id)
    \/ \E id \in allIds(fileSystem), n \in Names, response \in Responses :
          renameItemServer(id, n, response, "rename")
    \/ \E id \in allIds(fileSystem) : loadNoteContentStart(id)
    \/ fetchesSettle

\* weak fairness of both kinds of fetch; that of the expansions is written
\* out, batchInFlight being what enables the step
SpecExpand ==
    /\ InitExpand /\ [][NextExpand]_vars
    /\ WF_vars(lazyLoadSettles)
    /\ ([]<>(~batchInFlight) \/ []<><<batchFetchSettles>>_vars)

foldersLoading ==
    {f \in seqToSet(flatten(fileSystem)) : f.type = "folder" /\ f.isLoadingContents}

\* C33: once every fetch of a folder expansion has settled, a folder that is
\* still in the tree with isLoadingContents set, renamed or closed
\* meanwhile or not, has the flag cleared in the end
C33_LoadingFlagCleared ==
    (inflight = <<>> /\ foldersLoading # {}) ~> (foldersLoading = {})


(***************************************************************************)
(* Loading.  The hook is mounted with isLoading set and its init effect    *)
(* still to run; the effect runs by itself, the other loads are started by *)
(* the user.                                                               *)
(***************************************************************************)
\* the init effect, local branch
initEffectLocal ==
    /\ storageLocation = "localStorage"
    /\ isLoading
    /\ NoTick
    /\ isLoading' = FALSE
    /\ isServerLoadInitiated' = FALSE
    /\ needsLogin' = FALSE
    /\ fileSystem' = localStorageNotes
    /\ toasts' = <<>>
    /\ lastOp' = Op("initEffect", "ok", <<>>, <<>>)
    /\ UNCHANGED <<sessions, storageLocation, verified, input, output, activeItem, editor,
                   directoryHandle, token, localStorageNotes, serverDisk, handleDisk,
                   inflight>>

\* the init effect, server branch without a token
initEffectNoToken ==
    /\ storageLocation = "server"
    /\ ~token
    /\ isLoading
    /\ NoTick
    /\ isLoading' = FALSE
    /\ isServerLoadInitiated' = FALSE
    /\ needsLogin' = TRUE
    /\ fileSystem' = <<>>
    /\ toasts' = <<>>
    /\ lastOp' = Op("initEffect", "needsLogin", <<>>, <<>>)
    /\ UNCHANGED <<sessions, storageLocation, verified, input, output, activeItem, editor,
                   directoryHandle, token, localStorageNotes, serverDisk, handleDisk,
                   inflight>>

InitLoading ==
    /\ storageLocation \in StorageLocations
    /\ token \in BOOLEAN
    /\ needsLogin = FALSE
    /\ isServerLoadInitiated = FALSE
    /\ directoryHandle = FALSE
    /\ verified = "none"
    /\ localStorageNotes = initialFileSystem
    /\ serverDisk = InitialServerDisk
    /\ handleDisk = InitialHandleDisk
    /\ fileSystem = <<>>
    /\ inflight = <<>>
    /\ toasts = <<>>
    /\ lastOp = Op("init", "ok", <<>>, <<>>)
    /\ steps = MaxLoadingSteps
    /\ activeItem = <<>>
    /\ editor = NoEditor
    /\ isLoading = TRUE
    /\ sessions = NoSessions
    /\ input = <<>>
    /\ output = <<>>

\* the loads that go on without the user: the init effect where it only
\* sets state, and where it lists a backend
effectSets == initEffectLocal \/ initEffectNoToken

effectLists ==
    \/ \E granted \in BOOLEAN : initEffectFS(granted)
    \/ \E config \in Listings, relist \in Relists(serverDisk) :
          /\ config = "ok" \/ relist = OkRelist
          /\ initEffectServer(config, relist.listing, relist.failing)
    \/ \E k \in DOMAIN inflight, config \in Listings, relist \in Relists(serverDisk) :
          /\ config = "ok" \/ relist = OkRelist
          /\ refreshSettles(k, config, relist.listing, relist.failing)

\* a listing of the init effect is still to come
listingPending ==
    \/ storageLocation = "fileSystem" /\ ~directoryHandle /\ isLoading
    \/ storageLocation = "server" /\ token /\ ~isServerLoadInitiated
    \/ \E k \in DOMAIN inflight : inflight[k].kind = "refresh"

\* the init effect of the mount has run: the page takes input from then on
mounted == lastOp.op # "init"

NextLoading ==
    \/ effectSets
    \/ effectLists
    \/ mounted /\ loginServer
    \/ \E granted \in BOOLEAN, fault \in Faults :
          mounted /\ pickDirectory(granted, fault)
    \/ \E location \in StorageLocations, granted \in BOOLEAN :
          mounted /\ switchStorage(location, granted)

\* weak fairness of the init effect; that of its listings is written out,
\* listingPending being what enables the step
SpecLoading ==
    /\ InitLoading /\ [][NextLoading]_vars
    /\ WF_vars(effectSets)
    /\ ([]<>(~listingPending) \/ []<><<effectLists>>_vars)

\* C34: every load that sets isLoading sets it back, whether the load
\* succeeds or fails: isLoading never stays set for ever
C34_LoadingEnds == isLoading ~> ~isLoading


\* C35: findAndRemoveItem(tree, id) removes exactly one item with its
\* subtree: the tree returned has as many items fewer as that subtree
\* holds, foundItem is an item of the tree with that id, and when no item
\* has the id the tree is returned as it was and foundItem is null
C35_RemovesExactlyOne ==
    lastOp.op = "remove" =>
        LET tree == input[1]
            itemId == input[2]
        IN  IF itemId \notin allIds(tree)
            THEN output.newItems = tree /\ output.foundItem = Null
            ELSE /\ output.foundItem \in seqToSet(flatten(tree))
                 /\ output.foundItem.id = itemId
                 /\ countItems(output.newItems)
                       = countItems(tree) - countItems(<<output.foundItem>>)


(***************************************************************************)
(* safePath of the server, on the paths as strings.                        *)
(***************************************************************************)
\* path.resolve over the segments: "" and "." are skipped, ".." leaves the
\* directory reached so far
RECURSIVE normalizeSegments(_, _)
normalizeSegments(segments, reached) ==
    IF segments = <<>> THEN reached
    ELSE IF Head(segments) = <<>> \/ Head(segments) = <<".">>
         THEN normalizeSegments(Tail(segments), reached)
    ELSE IF Head(segments) = <<".", ".">>
         THEN normalizeSegments(Tail(segments), front(reached))
    ELSE normalizeSegments(Tail(segments), Append(reached, Head(segments)))

\* path.resolve(base, target), base being absolute
pathResolve(base, target) ==
    Slash \o join(normalizeSegments(IF startsWith(target, Slash) THEN split(target)
                                    ELSE split(base) \o split(target), <<>>))

\* safePath(base, target): the path, or the error thrown
safePathOf(base, target) ==
    LET p == pathResolve(base, target)
    IN  [throws |-> ~startsWith(p, base), p |-> p]

\* DATA_ROOT is /d; the directory of the user u, next to that of the user uv
UserBase == <<"/", "d", "/", "u">>

Segments == {<<".", ".">>, <<".">>, <<"u">>, <<"u", "v">>, <<"x">>}

RECURSIVE segmentLists(_)
segmentLists(n) ==
    IF n = 0 THEN {<<>>}
    ELSE segmentLists(n - 1)
         \cup {Append(l, s) : l \in segmentLists(n - 1), s \in Segments}

Targets ==
    {join(l) : l \in segmentLists(MaxSegments)}
        \cup {Slash \o join(l) : l \in segmentLists(MaxSegments)}

applySafePath ==
    /\ Tick
    /\ output' = safePathOf(input[1], input[2])
    /\ lastOp' = Op("safePath", IF safePathOf(input[1], input[2]).throws
                                THEN "threw" ELSE "ok", <<>>, <<>>)
    /\ UNCHANGED <<fileSystem, input>>
    /\ hookUntouched

InitSafePath ==
    /\ InitFunction
    /\ fileSystem = <<>>
    /\ input \in {UserBase} \X Targets
    /\ output = <<>>
    /\ steps = MaxSafePathSteps

NextSafePath == applySafePath

SpecSafePath == InitSafePath /\ [][NextSafePath]_vars

\* C36: the path safePath returns is base itself or lies inside the
\* directory base; for a target that resolves outside of it, a sibling
\* directory whose name begins with the name of base included, it throws
C36_SafePathStaysInside ==
    (lastOp.op = "safePath" /\ lastOp.outcome = "ok")
        => \/ output.p = input[1]
           \/ startsWith(output.p, input[1] \o Slash)


(***************************************************************************)
(* The server with the directories of two users below DATA_ROOT.  The disk *)
(* holds what is below DATA_ROOT, the first name of a path being the       *)
(* directory of a user.                                                    *)
(***************************************************************************)
DataRoot == <<"/", "d">>

\* path.join(DATA_ROOT, req.user)
userDir(user) == DataRoot \o Slash \o user

\* the names below DATA_ROOT of a path safePath let through
belowDataRoot(p) == Tail(pathParts(p))

\* p.startsWith(req.user + '/') ? p.slice(req.user.length + 1) : p
stripUserName(user, p) ==
    IF startsWith(p, user \o Slash) THEN SubSeq(p, Len(user) + 2, Len(p)) ELSE p

\* what a request leaves: the status, the disk, the file it read or wrote
Served(status, disk, full, text) ==
    [status |-> status, disk |-> disk, full |-> full, text |-> text]

\* GET /download/file
downloadFile(disk, user, fileName) ==
    LET safe == safePathOf(DataRoot, fileName)
        full == belowDataRoot(safe.p)
        none == plainText(<<>>)
    IN  IF fileName = <<>> \/ safe.throws THEN Served(400, disk, <<>>, none)
        ELSE IF ~existsSync(disk, full) THEN Served(404, disk, <<>>, none)
        ELSE IF ~isFile(disk, full) THEN Served(500, disk, <<>>, none)
        ELSE Served(200, disk, full, readFile(disk, full))

\* POST /files/create
filesCreate(disk, user, filePath, content) ==
    LET safe == safePathOf(userDir(user), stripUserName(user, filePath))
        full == belowDataRoot(safe.p)
    IN  IF filePath = <<>> \/ safe.throws THEN Served(400, disk, <<>>, content)
        ELSE IF existsSync(disk, full) THEN Served(400, disk, <<>>, content)
        ELSE IF mkdirpFails(disk, front(full)) THEN Served(400, disk, <<>>, content)
        ELSE Served(200, writeFile(mkdirp(disk, front(full)), full, content), full, content)

\* POST /files/update
filesUpdate(disk, user, fileName, content) ==
    LET stripped == stripUserName(user, fileName)
        safe == safePathOf(userDir(user), stripped)
        full == belowDataRoot(safe.p)
    IN  IF fileName = <<>> \/ safe.throws THEN Served(400, disk, <<>>, content)
        ELSE IF ~existsSync(disk, full) THEN Served(404, disk, <<>>, content)
        ELSE IF ~endsWith(stripped, MdExt) THEN Served(400, disk, <<>>, content)
        ELSE IF writeFileFails(disk, full) THEN Served(400, disk, <<>>, content)
        ELSE Served(200, writeFile(disk, full, content), full, content)

\* a request that passed the auth middleware as user
request(route, user, path, served) ==
    /\ Tick
    /\ serverDisk' = served.disk
    /\ input' = <<user, path>>
    /\ output' = served
    /\ lastOp' = Op(route, IF served.status = 200 THEN "ok" ELSE "failed", user, path)
    /\ UNCHANGED <<sessions, storageLocation, verified, token, needsLogin, isServerLoadInitiated,
                   directoryHandle, localStorageNotes, handleDisk, inflight, toasts,
                   activeItem, editor, isLoading, fileSystem>>

Str_a_md == <<"a", ".", "m", "d">>
Str_b_md == <<"b", ".", "m", "d">>

UsersDisk ==
    { DirEntry(<<UserU>>), DirEntry(<<UserUV>>),
      FileEntry(<<UserU, Str_a_md>>, plainText(<<"y">>)),
      FileEntry(<<UserUV, Str_b_md>>, plainText(<<"z">>)) }

\* the paths a request names: a file of the user, with and without the
\* name of the user in front, and paths that leave the directory
RequestPaths ==
    { Str_a_md, Str_b_md,
      UserU \o Slash \o Str_a_md,
      UserUV \o Slash \o Str_b_md,
      <<".", ".", "/">> \o UserUV \o Slash \o Str_b_md,
      <<".", ".", "/">> \o UserU \o Slash \o Str_a_md,
      <<".", ".", "/">> \o UserUV \o Slash \o Str_a_md }

InitUsers ==
    /\ storageLocation = "server"
    /\ token = TRUE
    /\ needsLogin = FALSE
    /\ isServerLoadInitiated = FALSE
    /\ directoryHandle = FALSE
    /\ verified = "none"
    /\ localStorageNotes = <<>>
    /\ handleDisk = EmptyDisk
    /\ inflight = <<>>
    /\ toasts = <<>>
    /\ lastOp = Op("init", "ok", <<>>, <<>>)
    /\ activeItem = <<>>
    /\ editor = NoEditor
    /\ isLoading = FALSE
    /\ sessions = NoSessions
    /\ fileSystem = <<>>
    /\ serverDisk = UsersDisk
    /\ input = <<>>
    /\ output = <<>>
    /\ steps = MaxUserSteps

NextUsers ==
    \/ \E user \in Users, path \in RequestPaths :
          request("download", user, path, downloadFile(serverDisk, user, path))
    \/ \E user \in Users, path \in RequestPaths :
          request("create", user, path,
                  filesCreate(serverDisk, user, path, plainText(<<"x">>)))
    \/ \E user \in Users, path \in RequestPaths :
          request("update", user, path,
                  filesUpdate(serverDisk, user, path, plainText(<<"x">>)))

SpecUsers == InitUsers /\ [][NextUsers]_vars

\* C37: a request authenticated as the user u reads and writes only below
\* DATA_ROOT/u: the file it is served from or writes to is there, and no
\* entry of the directory of another user is added, changed or removed
inDirOf(user, full) == full # <<>> /\ full[1] = user

C37_OwnDirectoryOnly ==
    [][lastOp'.op \in {"download", "create", "update"}
       => /\ output'.status = 200 => inDirOf(lastOp'.id, output'.full)
          /\ \A e \in (serverDisk \ serverDisk') \cup (serverDisk' \ serverDisk) :
                inDirOf(lastOp'.id, e.path)]_vars


(***************************************************************************)
(* Sessions: POST /login, POST /logout and a request to a protected route, *)
(* sent with any of the cookies the server has handed out.                 *)
(***************************************************************************)
sessionsFrame ==
    UNCHANGED <<storageLocation, verified, token, needsLogin, isServerLoadInitiated,
                directoryHandle, localStorageNotes, serverDisk, handleDisk, inflight,
                toasts, activeItem, editor, isLoading, fileSystem, input, output>>

\* POST /login; passwordOk: bcrypt.compareSync(password, user.passwordHash)
login(username, passwordOk) ==
    /\ Tick
    /\ sessions' = IF passwordOk
                   THEN [sessions EXCEPT
                            !.activeToken[username] = jwtSign(username, sessions.now),
                            !.issued = Append(@, jwtSign(username, sessions.now))]
                   ELSE sessions
    /\ lastOp' = Op("login", IF passwordOk THEN "ok" ELSE "failed", username, <<>>)
    /\ sessionsFrame

\* POST /logout with the k-th cookie handed out: the same in the try and in the catch
logout(k) ==
    LET cookie == sessions.issued[k]
    IN  /\ Tick
        /\ sessions' = IF sessions.activeToken[cookie.username] = cookie
                       THEN [sessions EXCEPT !.activeToken[cookie.username] = NoToken]
                       ELSE sessions
        /\ lastOp' = Op("logout", "ok", cookie.username, <<>>)
        /\ sessionsFrame

\* a request to a protected route with the k-th cookie handed out
protectedRequest(k) ==
    LET cookie == sessions.issued[k]
    IN  /\ Tick
        /\ lastOp' = Op("request", IF auth(sessions, cookie) = 200 THEN "ok" ELSE "failed",
                        cookie.username, <<>>)
        /\ UNCHANGED sessions
        /\ sessionsFrame

\* a second passes on the server
clockTicks ==
    /\ sessions.now < MaxClock
    /\ sessions' = [sessions EXCEPT !.now = @ + 1]
    /\ NoTick
    /\ UNCHANGED lastOp
    /\ sessionsFrame

InitSessions ==
    /\ storageLocation = "server"
    /\ token = FALSE
    /\ needsLogin = TRUE
    /\ isServerLoadInitiated = FALSE
    /\ directoryHandle = FALSE
    /\ verified = "none"
    /\ localStorageNotes = <<>>
    /\ handleDisk = EmptyDisk
    /\ inflight = <<>>
    /\ toasts = <<>>
    /\ lastOp = Op("init", "ok", <<>>, <<>>)
    /\ activeItem = <<>>
    /\ editor = NoEditor
    /\ isLoading = FALSE
    /\ sessions = NoSessions
    /\ fileSystem = <<>>
    /\ serverDisk = EmptyDisk
    /\ input = <<>>
    /\ output = <<>>
    /\ steps = MaxSessionSteps

NextSessions ==
    \/ \E username \in Users, passwordOk \in BOOLEAN : login(username, passwordOk)
    \/ \E k \in 1..Len(sessions.issued) : logout(k)
    \/ \E k \in 1..Len(sessions.issued) : protectedRequest(k)
    \/ clockTicks

SpecSessions == InitSessions /\ [][NextSessions]_vars

\* the cookies handed out to the user before this step
earlierCookies(username) ==
    {sessions.issued[k] : k \in {i \in 1..Len(sessions.issued) :
                                    sessions.issued[i].username = username}}

\* C38: once a login or a logout of a user has been answered, the middleware
\* rejects every token the server issued to that user before; the only token
\* it can accept is the one of the login just answered.
C38_EarlierTokensRejected ==
    [][(steps' # steps /\ lastOp'.op \in {"login", "logout"} /\ lastOp'.outcome = "ok")
       => \A cookie \in earlierCookies(lastOp'.id) : auth(sessions', cookie) # 200]_vars


(***************************************************************************)
(* services/markdownFormatter: formatMarkdown and dedent, over texts of    *)
(* spaces, line feeds, backticks, list markers and letters.                *)
(***************************************************************************)
\* the backtick is written "^" in the strings of this module
BackTick == "^"
Fence == <<BackTick, BackTick, BackTick>>

\* str.indexOf(pattern, from - 1) + 1, 0 when the pattern does not occur
indexOfFrom(str, pattern, from) ==
    LET hits == {k \in from..(Len(str) - Len(pattern) + 1) :
                    SubSeq(str, k, k + Len(pattern) - 1) = pattern}
    IN  IF hits = {} THEN 0 ELSE CHOOSE k \in hits : \A j \in hits : k <= j

\* text.split(/(```[\s\S]*?```)/g): the code blocks are the even elements
\* here (the odd indexes of the code), the text around them the odd ones
RECURSIVE splitCodeBlocks(_)
splitCodeBlocks(text) ==
    LET open == indexOfFrom(text, Fence, 1)
        close == IF open = 0 THEN 0 ELSE indexOfFrom(text, Fence, open + 3)
    IN  IF close = 0 THEN <<text>>
        ELSE <<SubSeq(text, 1, open - 1), SubSeq(text, open, close + 2)>>
             \o splitCodeBlocks(SubSeq(text, close + 3, Len(text)))

\* parts.join(sep)
RECURSIVE joinWith(_, _)
joinWith(parts, sep) ==
    IF parts = <<>> THEN <<>>
    ELSE IF Len(parts) = 1 THEN parts[1]
    ELSE parts[1] \o sep \o joinWith(Tail(parts), sep)

\* text.split('\n')
linesOf(text) == splitBy(text, "\n", 1, <<>>)

\* line.match(/^\s*/)[0]
leadingWhitespace(line) == SubSeq(line, 1, spaceRunEnd(line, 1))

\* the while loop of dedent: the common start of two strings
RECURSIVE commonStart(_, _)
commonStart(a, b) ==
    IF a # <<>> /\ b # <<>> /\ a[1] = b[1]
    THEN <<a[1]>> \o commonStart(Tail(a), Tail(b))
    ELSE <<>>

\* the for loop of dedent; seen: commonPrefix is no longer null
RECURSIVE commonPrefixOf(_, _, _)
commonPrefixOf(lines, seen, commonPrefix) ==
    IF lines = <<>> THEN commonPrefix
    ELSE IF trim(lines[1]) = <<>> THEN commonPrefixOf(Tail(lines), seen, commonPrefix)
    ELSE LET narrowed == IF seen
                         THEN commonStart(commonPrefix, leadingWhitespace(lines[1]))
                         ELSE leadingWhitespace(lines[1])
         IN  IF narrowed = <<>> THEN <<>>
             ELSE commonPrefixOf(Tail(lines), TRUE, narrowed)

dedent(text) ==
    LET lines == linesOf(text)
        prefix == commonPrefixOf(lines, FALSE, <<>>)
    IN  IF prefix # <<>>
        THEN joinWith([i \in DOMAIN lines |->
                          IF startsWith(lines[i], prefix)
                          THEN SubSeq(lines[i], Len(prefix) + 1, Len(lines[i]))
                          ELSE lines[i]], <<"\n">>)
        ELSE text

\* content.replace(/^\s*\n|\n\s*$/g, ''): the white space at the start up to
\* its last line feed, then the first line feed that only white space follows
trimBlankLines(content) ==
    LET lead == {k \in 1..spaceRunEnd(content, 1) : content[k] = "\n"}
        from == IF lead = {} THEN 1
                ELSE 1 + CHOOSE k \in lead : \A j \in lead : j <= k
        rest == SubSeq(content, from, Len(content))
        tails == {k \in DOMAIN rest : rest[k] = "\n" /\ spaceRunEnd(rest, k) = Len(rest)}
    IN  IF tails = {} THEN rest
        ELSE SubSeq(rest, 1, (CHOOSE k \in tails : \A j \in tails : k <= j) - 1)

\* the branch of the odd indexes: a code block
formatCodeBlock(part) ==
    LET lines == linesOf(part)
        firstLine == lines[1]
        lastLine == lines[Len(lines)]
        langIdentifier == toLowerCase(trim(SubSeq(firstLine, 4, Len(firstLine))))
        content == dedent(trimBlankLines(
                       joinWith(SubSeq(lines, 2, Len(lines) - 1), <<"\n">>)))
    IN  IF Len(lines) < 2 THEN part
        ELSE IF ~startsWith(firstLine, Fence) \/ ~startsWith(lastLine, Fence) THEN part
        ELSE Fence \o langIdentifier \o <<"\n">> \o content \o <<"\n">> \o Fence

ListMarkers == {"-", "*", "+"}

\* the end of the run of characters of the set that starts at i, i - 1 when empty
RECURSIVE runEnd(_, _, _)
runEnd(s, i, set) ==
    IF i <= Len(s) /\ s[i] \in set THEN runEnd(s, i + 1, set) ELSE i - 1

\* /^( *)([-*+]|\d+\.)/ : where the list marker of the line ends, 0 without one
markerEnd(line) ==
    LET start == runEnd(line, 1, {" "}) + 1
        digitsEnd == runEnd(line, start, Digits)
    IN  IF start <= Len(line) /\ line[start] \in ListMarkers THEN start
        ELSE IF digitsEnd >= start /\ digitsEnd < Len(line) /\ line[digitsEnd + 1] = "."
             THEN digitsEnd + 1
        ELSE 0

\* Rule 1 on one line: replace(/^( *)([-*+]|\d+\.)([^\s])/gm, '$1$2 $3')
spaceAfterMarker(line) ==
    LET e == markerEnd(line)
    IN  IF e # 0 /\ e < Len(line) /\ ~isSpace(line[e + 1])
        THEN SubSeq(line, 1, e) \o <<" ">> \o SubSeq(line, e + 1, Len(line))
        ELSE line

\* Rule 2 on one line: replace(/[ \t]+$/gm, '')
RECURSIVE trimTrailingBlanks(_)
trimTrailingBlanks(line) ==
    IF line # <<>> /\ line[Len(line)] \in {" ", "\t"}
    THEN trimTrailingBlanks(front(line))
    ELSE line

\* Rule 3: replace(/\n{3,}/g, '\n\n')
RECURSIVE collapseLineFeeds(_)
collapseLineFeeds(s) ==
    IF s = <<>> THEN <<>>
    ELSE IF s[1] = "\n"
         THEN (IF runEnd(s, 1, {"\n"}) >= 3 THEN <<"\n", "\n">>
               ELSE SubSeq(s, 1, runEnd(s, 1, {"\n"})))
              \o collapseLineFeeds(SubSeq(s, runEnd(s, 1, {"\n"}) + 1, Len(s)))
    ELSE <<s[1]>> \o collapseLineFeeds(Tail(s))

\* the branch of the even indexes: the text outside the code blocks
formatOutside(part) ==
    LET lines == linesOf(part)
    IN  collapseLineFeeds(
            joinWith([i \in DOMAIN lines |-> trimTrailingBlanks(spaceAfterMarker(lines[i]))],
                     <<"\n">>))

formatMarkdown(text) ==
    LET parts == splitCodeBlocks(text)
    IN  IF text = <<>> THEN <<>>
        ELSE joinWith([i \in DOMAIN parts |->
                          IF i % 2 = 0 THEN formatCodeBlock(parts[i])
                          ELSE formatOutside(parts[i])], <<>>)

\* the texts put together from at most n of the fragments
Fragments == {<<" ">>, <<BackTick>>, Fence, <<"\n">>, <<"-">>, <<"A">>}

RECURSIVE textsOf(_)
textsOf(n) ==
    IF n = 0 THEN {<<>>}
    ELSE textsOf(n - 1) \cup {t \o f : t \in textsOf(n - 1), f \in Fragments}

\* Editor.handleFormatOnBlur: setLocalContent(formatMarkdown(localContent));
\* input is the content of the editor, output the content before the format
handleFormatOnBlur ==
    /\ input # <<>>
    /\ Tick
    /\ input' = formatMarkdown(input)
    /\ output' = input
    /\ lastOp' = Op("format", IF formatMarkdown(input) = input THEN "same" ELSE "changed",
                    <<>>, <<>>)
    /\ UNCHANGED fileSystem
    /\ hookUntouched

InitFormat ==
    /\ InitFunction
    /\ fileSystem = <<>>
    /\ input \in textsOf(MaxFragments)
    /\ output = <<>>
    /\ steps = MaxFormatSteps

NextFormat == handleFormatOnBlur

SpecFormat == InitFormat /\ [][NextFormat]_vars

\* C39: formatting a text that formatMarkdown has returned gives the same
\* text back: formatMarkdown(formatMarkdown(x)) = formatMarkdown(x).
C39_FormatIdempotent ==
    [][(lastOp.op = "format" /\ lastOp'.op = "format" /\ steps' # steps)
       => input' = input]_vars

====
